---- MODULE Spec2Model ----
(***************************************************************************)
(* A model of fulcrum_to_google_drive.py (class FulcrumToDriveExporter):   *)
(* the run loop of export_all, the per-form pipeline of export_form, the   *)
(* concurrent photo batch of _download_and_upload_photos with its workers   *)
(* (_process_single_photo), the checkpoint files and the shutdown handlers. *)
(*                                                                          *)
(* Modelling decisions:                                                     *)
(*  - A process run is the life of one exporter object; Restart starts the  *)
(*    next process: memory is fresh, the two checkpoint files and the      *)
(*    Drive contents stay.                                                  *)
(*  - The source (forms, records, photos) is fixed: it does not change     *)
(*    during or between runs.  A form's records reference each photo once.  *)
(*  - File names and photo ids are sequences of characters/tokens, so that  *)
(*    "<id>.<ext>" and rsplit('.', 1) are computed, not assumed.            *)
(*  - Errors of the source, of Drive and of the network, and a batch that   *)
(*    outlasts as_completed's timeout, are environment events; their number *)
(*    is bounded by MaxFaults, the number of SIGTERM/SIGINT deliveries by   *)
(*    MaxSignals.  File writes are taken to succeed.                        *)
(*  - Wall-clock time is read only by _check_timeout at the top of the     *)
(*    form loop, so the clock advances there (Tick); it is measured from    *)
(*    the start of the process.                                             *)
(*  - CSV/GeoJSON/summary uploads and layers do not touch the state the    *)
(*    properties below are about and are left out; forms have records.     *)
(*  - The approval channel is a list of messages (text, author, moment),   *)
(*    at most MaxReplies of them after a request; texts are sequences of   *)
(*    characters, so that strip() and lower() are computed.  In Spec a     *)
(*    call of cleanup_deleted_photos is one step whose answer is any       *)
(*    outcome a wait can have; WaitSpec runs the exporter up to its first  *)
(*    approval request and then steps through the wait poll by poll.       *)
(*  - Four parts of the program are also followed on their own, each in   *)
(*    one record beside the exporter's state and under its own            *)
(*    specification: one call of _process_single_photo, network call by    *)
(*    network call (xfer, TransferSpec); one call of                       *)
(*    _download_and_upload_photos on a clock (pool, BatchSpec, weakly      *)
(*    fair); the retry loop of export_all around export_form (loop,        *)
(*    FormsLoopSpec); the failure summary over the runs (report,           *)
(*    SummarySpec).  Delays of a transfer are counted in half seconds.     *)
(*  - Three more records follow the threads of a batch: the calls of       *)
(*    _record_photo_uploaded statement by statement (recd, RecordSpec),    *)
(*    the Drive service each thread holds (svc, ServiceSpec), and a batch  *)
(*    of more photos than the pool has threads (wide, WidePoolSpec).       *)
(***************************************************************************)
EXTENDS Integers, Sequences, FiniteSets, TLC

\* ------------------------------------------------------------------ bounds
MaxRuns == 2      \* process runs in a behaviour
MaxFaults == 2    \* environment events (errors, batch timeouts) in a behaviour
MaxTicks == 2     \* clock advances in a run
MaxSignals == 1   \* SIGTERM/SIGINT deliveries in a behaviour
MaxReplies == 2   \* messages that reach the approval channel after a request
NFutures == 3     \* photos submitted in the batch that is followed on the clock
TimeStep == 100   \* seconds between two looks at the clock of that batch
MaxFailed == 2    \* photos of a form that fail in one call of export_form
MaxBatchTime == 400   \* the clock of that batch stops here
MaxBelow == 3    \* ids short of a multiple of save_every before the batch
NSvcThreads == 2 \* pool threads whose Drive services are followed
MaxRefresh == 1  \* token refreshes during the batch that is followed
MaxUploads == 2  \* uploads one pool thread makes in that batch
MaxResets == 1   \* TLS errors that are retried in that batch
NWide == 7       \* photos submitted to the pool that is followed for its width

\* ------------------------------------------------------- program constants
WORKFLOW_TIMEOUT_SECONDS == 5 * 60 * 60 + 45 * 60
max_retries == 3           \* _upload_to_drive / download_photo_* attempts
max_workers == 5           \* ThreadPoolExecutor width
form_attempts == 3         \* export_all: for attempt in range(3)
batch_retry_rounds == 3    \* export_form: retry_count < 3
give_up_after == 2         \* export_form: no progress and retry_count >= 2
save_every == 100          \* _record_photo_uploaded: len % 100 == 0
timeout_minutes == 5       \* wait_for_slack_approval: timeout_minutes
poll_interval == 5         \* wait_for_slack_approval: poll_interval
history_timeout == 30      \* get_slack_messages_since: requests.get(timeout=30)

TickStep == WORKFLOW_TIMEOUT_SECONDS \div 2

\* ------------------------------------------------------------ source data
\* get_forms: SELECT * FROM forms ORDER BY name
Forms == <<"F1", "F2">>
NForms == Len(Forms)

PA == <<"A">>
PB == <<"B">>
PC == <<"C">>
PD == <<"D">>

\* extract_photo_ids over the form's records
all_photos(form) ==
  CASE form = "F1" -> {PA, PC}
    [] form = "F2" -> {PD}
    [] OTHER -> {}

AllPhotoIds == UNION {all_photos(Forms[i]) : i \in 1..NForms}

\* one row of /photos.json; photo D has not been processed by the source
PhotoData(id) ==
  [deleted_at |-> FALSE, stored |-> TRUE, processed |-> (id # PD),
   content_type |-> IF id = PC THEN "image/png" ELSE "image/jpeg"]

\* 'png' if 'png' in content_type else 'jpg'
ExtOf(photo_data) == IF photo_data.content_type = "image/png" THEN "png" ELSE "jpg"

\* f"{photo_id}.{ext}"
FileName(photo_id, ext) == photo_id \o <<".", ext>>

\* names that can be in a photos folder of the target
OddNames == {PB \o <<".", "jpg">>, <<"A", ".", "v2", ".", "jpg">>, <<"notes">>}
AllNames ==
  {FileName(id, e) : id \in AllPhotoIds, e \in {"jpg", "png"}} \cup OddNames

NoFiles == [n \in AllNames |-> 0]
FilesOf(S) == [n \in AllNames |-> IF n \in S THEN 1 ELSE 0]

\* the targets a behaviour may start from: [folders, files]
InitialTargets ==
  { [folders |-> {}, files |-> [f \in {"F1", "F2"} |-> NoFiles]],
    [folders |-> {"F1"},
     files |-> [f \in {"F1", "F2"} |->
                 IF f = "F1"
                   THEN FilesOf({FileName(PA, "jpg"), FileName(PB, "jpg"),
                                 FileName(PC, "png")})
                   ELSE NoFiles]],
    [folders |-> {"F1", "F2"},
     files |-> [f \in {"F1", "F2"} |->
                 IF f = "F1"
                   THEN FilesOf({FileName(PA, "png"),
                                 <<"A", ".", "v2", ".", "jpg">>, <<"notes">>})
                   ELSE FilesOf({FileName(PD, "jpg")})]] }

\* constructor arguments and environment of a run
Configs ==
  { [skip_deletions |-> FALSE, auto_delete |-> FALSE, slack_enabled |-> TRUE,
     pre_approved |-> {}, quick_check |-> FALSE],
    [skip_deletions |-> FALSE, auto_delete |-> TRUE, slack_enabled |-> FALSE,
     pre_approved |-> {}, quick_check |-> FALSE],
    [skip_deletions |-> FALSE, auto_delete |-> FALSE, slack_enabled |-> FALSE,
     pre_approved |-> {}, quick_check |-> FALSE],
    [skip_deletions |-> FALSE, auto_delete |-> FALSE, slack_enabled |-> TRUE,
     pre_approved |-> {"F1"}, quick_check |-> FALSE],
    [skip_deletions |-> TRUE, auto_delete |-> FALSE, slack_enabled |-> FALSE,
     pre_approved |-> {}, quick_check |-> FALSE],
    [skip_deletions |-> TRUE, auto_delete |-> TRUE, slack_enabled |-> TRUE,
     pre_approved |-> {"F1"}, quick_check |-> FALSE] }

None == "None"
NoTime == 0 - 1   \* _export_start_time is None
NoList == <<>>    \* _forms_list is None (tested for truth only, as an empty list)

\* ------------------------------------------------------- pure functions
\* index of the last '.' of a name, 0 when it has none: rsplit('.', 1)
RECURSIVE LastDot(_, _)
LastDot(name, i) ==
  IF i = 0 THEN 0
  ELSE IF name[i] = "." THEN i
  ELSE LastDot(name, i - 1)

\* index of the first '.' of a name from position i on, 0 when it has none
RECURSIVE FirstDot(_, _)
FirstDot(name, i) ==
  IF i > Len(name) THEN 0
  ELSE IF name[i] = "." THEN i
  ELSE FirstDot(name, i + 1)

\* variant: the name is split at its first '.', as split('.', 1) would
RsplitHeadFirst(filename) == SubSeq(filename, 1, FirstDot(filename, 1) - 1)

\* filename.rsplit('.', 1)[0]
RsplitHead(filename) == SubSeq(filename, 1, LastDot(filename, Len(filename)) - 1)

\* '.' in filename
HasDot(filename) == \E i \in 1..Len(filename) : filename[i] = "."

\* identify_orphaned_photos, given the listing it obtains and the metadata keys
identify_orphaned_photos(existing_in_drive, valid_photo_ids) ==
  IF existing_in_drive = {} THEN {}
  ELSE {filename \in existing_in_drive :
          HasDot(filename) /\ RsplitHead(filename) \notin valid_photo_ids}

\* export_form: the photos that need downloading
InDrive(photo_id, existing_photos) ==
  \/ FileName(photo_id, "jpg") \in existing_photos
  \/ FileName(photo_id, "png") \in existing_photos

_is_photo_uploaded(photo_id, uploaded_photos) == photo_id \in uploaded_photos

\* variant: nothing is filtered, every photo of the records is downloaded
NeedsDownloadAll(photo_id, existing_photos, uploaded_photos) == TRUE

\* variant: only the Drive listing is consulted
NeedsDownloadNoSet(photo_id, existing_photos, uploaded_photos) ==
  ~InDrive(photo_id, existing_photos)

NeedsDownload(photo_id, existing_photos, uploaded_photos) ==
  /\ ~InDrive(photo_id, existing_photos)
  /\ ~_is_photo_uploaded(photo_id, uploaded_photos)

\* variant: the ceiling itself is still within budget
_check_timeout_strict(start_time, time_now) ==
  IF start_time = NoTime THEN FALSE
  ELSE time_now - start_time > WORKFLOW_TIMEOUT_SECONDS

\* _check_timeout
_check_timeout(start_time, time_now) ==
  IF start_time = NoTime THEN FALSE
  ELSE time_now - start_time >= WORKFLOW_TIMEOUT_SECONDS

\* variant: an ENDED EARLY run clears the files too
ShouldClearEnded(timeout_flag, cancelled) == ~timeout_flag

\* export_all: the state files are cleared only when status is COMPLETE
ShouldClear(timeout_flag, cancelled) == ~timeout_flag /\ ~cancelled

\* variant: only the deletion mark rejects a photo
RejectedIfDeleted(photo_data) == photo_data.deleted_at

\* download_photo_with_metadata: validation against the batch metadata
Rejected(photo_data) ==
  photo_data.deleted_at \/ ~photo_data.stored \/ ~photo_data.processed

ZeroStats ==
  [forms_processed |-> 0, photos_uploaded |-> 0, photos_skipped |-> 0,
   photos_failed |-> 0, photos_deleted |-> 0]

\* an absent export_state.json / export_progress.json
NoState == [exists |-> FALSE, form_index |-> 0, stats |-> ZeroStats]
NoProgress == [exists |-> FALSE, uploaded_photos |-> {}]

Listing(files) == {n \in AllNames : files[n] > 0}

\* ------------------------------------------------- one transfer, call by call
\* delays are counted in half seconds
\* variant: the backoff shrinks with the attempt
wait_time_shrinking(attempt) == 2 * (2 ^ (max_retries - attempt)) + attempt

\* _upload_to_drive, line 706: wait_time = (2 ** attempt) + (attempt * 0.5)
wait_time(attempt) == 2 * (2 ^ attempt) + attempt

\* lines 714 and 1164: time.sleep(1 * (attempt + 1))
linear_wait(attempt) == 2 * (attempt + 1)

\* the statuses an HttpError is given here
AllStatuses == {429, 403, 500, 503, 400, 404}

\* line 704: the statuses answered with exponential backoff
BackoffStatuses == {429, 403, 500, 503}

\* what a GET of the source can do: answer, fail as ssl.SSLError / requests'
\* SSLError / ConnectionError, or fail otherwise (raise_for_status, a timeout)
GetOutcomes == {"ok", "ssl", "error"}

\* what files().create can do: succeed, raise HttpError with a status, raise
\* ssl.SSLError or another OSError
CreateOutcomes ==
  {[kind |-> "ok", status |-> 200]} \cup
  {[kind |-> "http", status |-> st] : st \in AllStatuses} \cup
  {[kind |-> k, status |-> 0] : k \in {"ssl", "os"}}

\* the photos a transfer may be asked for: the flags of the source and
\* whether the batch metadata of the form holds the photo
PhotoInputs ==
  [cached : BOOLEAN, deleted_at : BOOLEAN, stored : BOOLEAN, processed : BOOLEAN,
   content_type : {"image/png", "image/jpeg"}]

\* no transfer is being followed
NoTransfer ==
  [pc |-> "none", photo |-> [cached |-> FALSE, deleted_at |-> FALSE,
                             stored |-> FALSE, processed |-> FALSE,
                             content_type |-> "image/jpeg"],
   attempt |-> 0, meta_calls |-> 0, fetch_calls |-> 0, create_calls |-> 0,
   sleeps |-> <<>>, fetched |-> FALSE, created |-> FALSE,
   download |-> "none", upload |-> "none", last |-> "none", status |-> 0]

\* a transfer about to start for a photo
NewTransfer(photo_data) == [NoTransfer EXCEPT !.pc = "call", !.photo = photo_data]

\* variant: one attempt more than max_retries
AttemptsLeftOneMore(attempt, retries) == attempt + 1 < retries + 1

\* the loop variable after `continue`, or the end of the for loop
AttemptsLeft(attempt, retries) == attempt + 1 < retries

\* ----------------------------------------------- one batch, on the clock
\* line 1602: for future in as_completed(future_to_photo, timeout=300)
as_completed_timeout == 300

\* the futures of future_to_photo (lines 1593-1596), by position
Futures == 1..NFutures

\* no batch is being followed
NoPool ==
  [pc |-> "none", elapsed |-> 0, last_completion |-> 0,
   future |-> [f \in Futures |-> "none"], yielded |-> {},
   all_results |-> {}, failed |-> {}, stalled |-> {}, stalled_after |-> 0]

\* lines 1592-1602: the executor has every photo, as_completed starts its clock
NewPool ==
  [NoPool EXCEPT !.pc = "as_completed",
                 !.future = [f \in Futures |-> "queued"]]

\* Future.done(): finished or cancelled
done(state) == state \in {"ok", "failed", "cancelled"}

\* as_completed computes end_time once, when it is called
Deadline(p) == as_completed_timeout

\* ------------------------------------------- the loop over the forms alone
\* what a call of export_form can do: return its summary, return it with
\* export_ended set, raise ssl.SSLError or another OSError, raise another
\* Exception
FormOutcomes == {"result", "export_ended", "oserror", "exception"}

\* the loop is not being followed
NoLoop ==
  [pc |-> "none", idx |-> 1, attempt |-> 0, calls |-> <<>>, results |-> <<>>]

\* line 1812: the first form is reached, results = []
NewLoop == [NoLoop EXCEPT !.pc = "call"]

\* variant: the handler retries after the last attempt too
RetriesOnLastAttempt(attempt) == attempt < form_attempts

\* line 1856: if attempt < 2
Retries(attempt) == attempt < form_attempts - 1

\* the for loop of line 1850 goes to its next attempt, or is exhausted and
\* the loop over the forms goes to the next form
NextAttempt(state) ==
  IF state.attempt + 1 < form_attempts
    THEN [state EXCEPT !.attempt = @ + 1]
    ELSE [state EXCEPT !.idx = @ + 1, !.attempt = 0,
                       !.pc = IF state.idx + 1 > NForms THEN "end" ELSE "call"]

\* break out of the attempts: the loop over the forms goes to the next form
NextForm(state) ==
  [state EXCEPT !.idx = @ + 1, !.attempt = 0,
                !.pc = IF state.idx + 1 > NForms THEN "end" ELSE "call"]

\* ------------------------------------------- the failure summary over runs
\* FAILED_DOWNLOADS_SUMMARY.txt is absent
NoSummary == [exists |-> FALSE, forms |-> <<>>]

\* the summary is not being followed
NoReport ==
  [pc |-> "none", run |-> 1, idx |-> 1, photos_failed |-> 0,
   failed_forms |-> <<>>,
   state |-> [exists |-> FALSE, form_index |-> 0, photos_failed |-> 0],
   summary |-> NoSummary, paused |-> FALSE,
   last_failed |-> [i \in 1..NForms |-> 0]]

\* __init__ (lines 107-119) and export_all before its loop, no checkpoint
NewReport == [NoReport EXCEPT !.pc = "loop"]

\* sorted(..., key=photos_failed, reverse=True) is stable: a record goes
\* behind the records that have at least its count
RECURSIVE InsertByFailed(_, _)
InsertByFailed(sorted, rec) ==
  IF sorted = <<>> THEN <<rec>>
  ELSE IF Head(sorted).photos_failed >= rec.photos_failed
         THEN <<Head(sorted)>> \o InsertByFailed(Tail(sorted), rec)
         ELSE <<rec>> \o sorted

RECURSIVE sorted_forms(_)
sorted_forms(forms) ==
  IF forms = <<>> THEN <<>>
  ELSE InsertByFailed(sorted_forms(SubSeq(forms, 1, Len(forms) - 1)),
                      forms[Len(forms)])

\* update_failed_downloads_summary: the artifact after the call
update_failed_downloads_summary(forms) ==
  IF forms = <<>> THEN NoSummary
  ELSE [exists |-> TRUE, forms |-> sorted_forms(forms)]

\* lines 1526-1535: the entry of the form is replaced
FailedFormsAfter(forms, form_name, count) ==
  LET others == SelectSeq(forms, LAMBDA f : f.name # form_name)
  IN IF count > 0
       THEN Append(others, [name |-> form_name, photos_failed |-> count])
       ELSE others

\* ------------------------------ the threads of a batch, statement by statement
\* the threads of ThreadPoolExecutor(max_workers=max_workers), line 1591
Workers == 1..max_workers

\* the ids recorded before the batch starts, and the id thread w records
StartSizes == {save_every - d : d \in 1..MaxBelow}
PhotoOf(w) == save_every + w

\* the pool threads whose services are followed, and the objects that
\* self._thread_local names, one per refresh and the first
SvcThreads == 1..NSvcThreads
Locals == 1..(MaxRefresh + 1)

\* variant of Slot: `service` is a plain attribute, one for all threads
SlotShared(local, t) == <<local, 1>>

\* threading.local(): the attribute `service` of a thread-local object is a
\* slot of its own for every thread
Slot(local, t) == <<local, t>>

UploadOutcomes == {"ok", "http_retried", "http_other", "ssl"}

\* the services of a batch are not being followed
NoServices ==
  [pc |-> "none", drive_service |-> 0, main |-> {}, _thread_local |-> 1,
   attr |-> [x \in Locals \X SvcThreads |-> 0], built |-> 0, refreshed |-> 0,
   resets |-> 0,
   at |-> [t \in SvcThreads |-> "none"], service |-> [t \in SvcThreads |-> 0],
   attempt |-> [t \in SvcThreads |-> 0], uploads |-> [t \in SvcThreads |-> 0],
   used |-> {}]

\* __init__: drive_service is built, _thread_local is empty; a batch starts
NewServices ==
  [NoServices EXCEPT !.pc = "batch", !.drive_service = 1, !.main = {1},
                     !.built = 1, !.at = [t \in SvcThreads |-> "idle"]]

\* variant of HasIdleThread: a thread is added while the pool is full
HasIdleThreadWhenFull(in_flight, width) == Cardinality(in_flight) <= width

\* ThreadPoolExecutor(max_workers=width): a queued call is taken only by one
\* of at most `width` threads, each running one call at a time
HasIdleThread(in_flight, width) == Cardinality(in_flight) < width

WidePhotos == 1..NWide

\* the pool is not being followed
NoWidePool ==
  [pc |-> "none", fut |-> [f \in WidePhotos |-> "none"], round |-> 0]

\* lines 1592-1596: every photo is submitted when the pool is created
NewWidePool ==
  [pc |-> "batch", fut |-> [f \in WidePhotos |-> "queued"], round |-> 0]

\* the transfers started and not yet finished
InFlight(state) == {f \in WidePhotos : state.fut[f] = "running"}


\* the calls of _record_photo_uploaded are not being followed
NoRecording ==
  [pc |-> "none", _uploaded_photos |-> {}, at |-> [w \in Workers |-> "none"],
   progress_file |-> [exists |-> FALSE, uploaded_photos |-> {}],
   reached |-> {}]

\* every thread is about to call _record_photo_uploaded (line 1573)
NewRecording(n) ==
  [NoRecording EXCEPT !.pc = "batch", !._uploaded_photos = 1..n,
                      !.at = [w \in Workers |-> "call"]]

\* ------------------------------------------------------- approval channel
\* texts are sequences of characters
Chars(w) ==
  CASE w = "yes" -> <<"y", "e", "s">>
    [] w = "Y" -> <<"Y">>
    [] w = " Skip " -> <<" ", "S", "k", "i", "p", " ">>
    [] w = "skip" -> <<"s", "k", "i", "p">>
    [] w = "END" -> <<"E", "N", "D">>
    [] w = "e" -> <<"e">>
    [] w = "maybe" -> <<"m", "a", "y", "b", "e">>
    [] w = "yes ok" -> <<"y", "e", "s", " ", "o", "k">>
    [] OTHER -> <<>>

ReplyTexts ==
  {Chars(w) : w \in {"yes", "Y", " Skip ", "skip", "END", "e", "maybe", "yes ok"}}

\* str.lower() on the characters in use
LowerChar(c) ==
  CASE c = "Y" -> "y"
    [] c = "S" -> "s"
    [] c = "E" -> "e"
    [] c = "N" -> "n"
    [] c = "D" -> "d"
    [] OTHER -> c

lower(text) == [i \in 1..Len(text) |-> LowerChar(text[i])]

\* str.strip(): leading and trailing blanks removed
RECURSIVE lstrip(_)
lstrip(text) ==
  IF text # <<>> /\ Head(text) = " " THEN lstrip(Tail(text)) ELSE text

RECURSIVE rstrip(_)
rstrip(text) ==
  IF text # <<>> /\ text[Len(text)] = " "
    THEN rstrip(SubSeq(text, 1, Len(text) - 1))
    ELSE text

strip(text) == rstrip(lstrip(text))

\* variant: every reply of a user counts as an approval
ReplyOfAny(text) == "approve"

\* wait_for_slack_approval, lines 214-226: what one message's text resolves to
ReplyOf(text) ==
  LET t == lower(strip(text))
  IN IF t \in {<<"y">>, <<"y", "e", "s">>} THEN "approve"
     ELSE IF t \in {<<"s">>, <<"s", "k", "i", "p">>} THEN "skip"
     ELSE IF t \in {<<"e">>, <<"e", "n", "d">>} THEN "end"
     ELSE "none"

\* the request posted by the exporter: its ts is the ts the wait is given
message_ts == 0
RequestMessage == [ts |-> message_ts, bot_id |-> TRUE, text |-> <<>>]

\* moments (seconds after the request) at which a message may be posted
ReplyMoments == {1, 150, 297}

Replies == [ts : ReplyMoments, bot_id : BOOLEAN, text : ReplyTexts]

\* a channel: what is posted after the request, newest first as
\* conversations.history returns it, and the duration of one history call
RECURSIVE Newest(_, _)
Newest(n, before) ==
  IF n = 0 THEN {<<>>}
  ELSE {<<>>} \cup
       UNION {{<<m>> \o rest : rest \in Newest(n - 1, m.ts)} :
                m \in {r \in Replies : r.ts < before}}

Channels ==
  [posted : Newest(MaxReplies, timeout_minutes * 60 + 1),
   latency : {0, history_timeout}]

NoChannel == [posted |-> <<>>, latency |-> 0]

\* get_slack_messages_since at a moment: the messages posted by then
get_slack_messages_since(ch, t) ==
  SelectSeq(ch.posted \o <<RequestMessage>>, LAMBDA m : m.ts <= t)

\* variant: the scan also reads the messages of bots
RECURSIVE ScanMessagesAll(_, _)
ScanMessagesAll(messages, i) ==
  IF i > Len(messages) THEN "none"
  ELSE IF messages[i].ts = message_ts
    THEN ScanMessagesAll(messages, i + 1)
  ELSE IF ReplyOf(messages[i].text) # "none"
    THEN ReplyOf(messages[i].text)
  ELSE ScanMessagesAll(messages, i + 1)

\* lines 208-226: the for loop over one poll's messages, from position i on
RECURSIVE ScanMessages(_, _)
ScanMessages(messages, i) ==
  IF i > Len(messages) THEN "none"
  ELSE IF messages[i].bot_id \/ messages[i].ts = message_ts
    THEN ScanMessages(messages, i + 1)
  ELSE IF ReplyOf(messages[i].text) # "none"
    THEN ReplyOf(messages[i].text)
  ELSE ScanMessages(messages, i + 1)

\* wait_for_slack_approval from elapsed time t on (Slack is enabled)
RECURSIVE WaitFrom(_, _)
WaitFrom(ch, t) ==
  IF ~(t < timeout_minutes * 60) THEN "timeout"
  ELSE LET found == ScanMessages(get_slack_messages_since(ch, t), 1)
       IN IF found # "none" THEN found
          ELSE WaitFrom(ch, t + ch.latency + poll_interval)

wait_for_slack_approval(ch) == WaitFrom(ch, 0)

\* the answers a wait can give over the channels considered
WaitOutcomes == {wait_for_slack_approval(ch) : ch \in Channels}

\* ------------------------------------------------------------------ state
VARIABLES
  \* what outlives a process
  state_file,            \* export_state.json: [exists, form_index, stats]
  progress_file,         \* export_progress.json: [exists, uploaded_photos]
  drive_files,           \* per form, the files of its photos folder (name -> copies)
  drive_folders,         \* the forms whose folder exists in Drive
  cfg,                   \* constructor arguments / environment
  channel, wait_elapsed, response,   \* the approval channel and a wait on it
  xfer,                  \* one call of _process_single_photo, call by call
  pool,                  \* one call of _download_and_upload_photos on the clock
  loop,                  \* export_all's loop over the forms, call by call
  report,                \* the failure summary over the runs
  recd,                  \* concurrent calls of _record_photo_uploaded
  svc,                   \* the Drive services of the threads of a batch
  wide,                  \* a batch with more photos than pool threads
  run, faults, signals, now, ticks,
  \* the exporter object and export_all's locals
  pc, _export_start_time, _forms_list, stats, failed_forms, _uploaded_photos,
  _export_cancelled, _skipped_forms, _current_form_index, start_form_index,
  idx, attempt, timeout_triggered, _folder_cache, _contents_cache, _new_folders,
  \* export_form's locals
  existing_photos, photos_to_download, skipped, photo_metadata_cache,
  orphaned_files, deleted_count, failed_photos, uploaded, retry_count,
  previous_failed_count, gate_log,
  \* _download_and_upload_photos: the futures of the running batch
  photos, wst, watt, yielded, all_results, failed,
  \* history (observers, read by no action's guard)
  createCalls, createOk, fetchCalls, exportCalls, cleared, signalled,
  runFaults, cursorAtStart, progressAtStart, allStoredAtStart,
  prevEnd, prevK, prevFresh

diskVars == <<state_file, progress_file>>
driveVars == <<drive_files, drive_folders>>
waitVars == <<channel, wait_elapsed, response>>
threadVars == <<recd, svc, wide>>
envVars == <<cfg, run, waitVars, xfer, pool, loop, report, threadVars, threadVars>>
clockVars == <<now, ticks>>
objVars ==
  <<_export_start_time, _forms_list, stats, failed_forms, _uploaded_photos,
    _export_cancelled, _skipped_forms, _current_form_index, start_form_index,
    idx, attempt, timeout_triggered, _folder_cache, _contents_cache, _new_folders>>
formVars ==
  <<existing_photos, photos_to_download, skipped, photo_metadata_cache,
    orphaned_files, deleted_count, failed_photos, uploaded, retry_count,
    previous_failed_count, gate_log>>
batchVars == <<photos, wst, watt, yielded, all_results, failed>>
callVars == <<createCalls, createOk, fetchCalls>>
histVars ==
  <<exportCalls, cleared, signalled, cursorAtStart, progressAtStart,
    allStoredAtStart, prevEnd, prevK, prevFresh>>

vars ==
  <<diskVars, driveVars, envVars, clockVars, faults, signals, runFaults, pc, objVars,
    formVars, batchVars, callVars, histVars>>

ZeroCalls == [p \in AllPhotoIds |-> 0]
Idle == [p \in AllPhotoIds |-> "none"]
NoCache == [f \in {Forms[i] : i \in 1..NForms} |-> [hit |-> FALSE, names |-> {}]]

\* the form the loop is at
Form == Forms[idx]

AllStored(files) ==
  \A i \in 1..NForms : \A p \in all_photos(Forms[i]) :
    InDrive(p, Listing(files[Forms[i]]))

\* what cleanup_deleted_photos did for the form at hand (observer):
\* the path taken, whether a request was posted and awaited, the reply,
\* the returned action and the names files().delete was called for
NoGate ==
  [path |-> "none", request |-> "none", awaited |-> FALSE, reply |-> "none",
   action |-> "none", delete_calls |-> {}, orphans |-> {}]

\* no wait is under way
NoWait ==
  /\ channel = NoChannel
  /\ wait_elapsed = 0
  /\ response = "none"

\* __init__ of a fresh exporter object: the memory of a new process
FreshObject ==
  /\ pc = "start"
  /\ _export_start_time = NoTime
  /\ _forms_list = NoList
  /\ stats = ZeroStats
  /\ failed_forms = {}
  /\ _uploaded_photos = {}
  /\ _export_cancelled = FALSE
  /\ _skipped_forms = <<>>
  /\ _current_form_index = 0
  /\ start_form_index = 0
  /\ idx = 1
  /\ attempt = 0
  /\ timeout_triggered = FALSE
  /\ _folder_cache = {}
  /\ _contents_cache = NoCache
  /\ _new_folders = {}
  /\ existing_photos = {}
  /\ photos_to_download = {}
  /\ skipped = 0
  /\ photo_metadata_cache = {}
  /\ orphaned_files = {}
  /\ deleted_count = 0
  /\ failed_photos = {}
  /\ uploaded = 0
  /\ retry_count = 0
  /\ previous_failed_count = 0
  /\ gate_log = NoGate
  /\ photos = {}
  /\ wst = Idle
  /\ watt = ZeroCalls
  /\ yielded = {}
  /\ all_results = {}
  /\ failed = {}

\* the start of a process: a fresh object, the disk and the target as found
ProcessStart ==
  /\ FreshObject
  /\ state_file = NoState
  /\ progress_file = NoProgress
  /\ \E t \in InitialTargets :
       /\ drive_files = t.files
       /\ drive_folders = t.folders
       /\ allStoredAtStart = AllStored(t.files)
  /\ cfg \in Configs
  /\ NoWait
  /\ run = 1
  /\ faults = 0
  /\ signals = 0
  /\ runFaults = 0
  /\ now = 0
  /\ ticks = 0
  /\ createCalls = ZeroCalls
  /\ createOk = ZeroCalls
  /\ fetchCalls = ZeroCalls
  /\ exportCalls = <<>>
  /\ cleared = FALSE
  /\ signalled = FALSE
  /\ cursorAtStart = 0
  /\ progressAtStart = {}
  /\ prevEnd = None
  /\ prevK = 0
  /\ prevFresh = FALSE

Init ==
  /\ ProcessStart
  /\ xfer = NoTransfer
  /\ pool = NoPool
  /\ loop = NoLoop
  /\ report = NoReport
  /\ recd = NoRecording
  /\ svc = NoServices
  /\ wide = NoWidePool

\* an environment event: an error of a collaborator or a batch timeout
Fault ==
  /\ faults < MaxFaults
  /\ faults' = faults + 1
  /\ runFaults' = runFaults + 1
  /\ UNCHANGED signals

NoFault == UNCHANGED <<faults, signals, runFaults>>

\* ------------------------------------------------------ checkpoint store
\* _save_photo_progress: the content of the progress file
_save_photo_progress(uploaded_photos) ==
  [exists |-> TRUE, uploaded_photos |-> uploaded_photos]

\* variant: the cursor written is one past the index given
_save_export_state_next(form_index, run_stats) ==
  [exists |-> TRUE, form_index |-> form_index + 1, stats |-> run_stats]

\* _save_export_state: the content of the state file
_save_export_state(form_index, run_stats) ==
  [exists |-> TRUE, form_index |-> form_index, stats |-> run_stats]

\* _record_photo_uploaded: the set, and the progress file after the call
_record_photo_uploaded(uploaded_photos, photo_id) == uploaded_photos \cup {photo_id}

ProgressAfterRecord(file, uploaded_photos) ==
  IF Cardinality(uploaded_photos) % save_every = 0
    THEN _save_photo_progress(uploaded_photos)
    ELSE file

\* ------------------------------------------------------------ export_all
\* lines 1743-1763: start time, handle_shutdown and save_on_exit installed
InstallHandlers ==
  /\ pc = "start"
  /\ pc' = "installed"
  /\ _export_start_time' = now
  /\ _forms_list' = NoList
  /\ UNCHANGED <<diskVars, driveVars, envVars, clockVars, stats, failed_forms,
                 _uploaded_photos, _export_cancelled, _skipped_forms,
                 _current_form_index, start_form_index, idx, attempt,
                 timeout_triggered, _folder_cache, _contents_cache, _new_folders,
                 formVars, batchVars, callVars, histVars>>
  /\ NoFault

\* lines 1765-1784: _load_export_state, stats restored, _load_photo_progress
LoadState ==
  /\ pc = "installed"
  /\ pc' = "loaded"
  /\ IF state_file.exists
       THEN /\ start_form_index' = state_file.form_index
            /\ stats' = state_file.stats
       ELSE UNCHANGED <<start_form_index, stats>>
  /\ IF progress_file.exists
       THEN _uploaded_photos' = progress_file.uploaded_photos
       ELSE UNCHANGED _uploaded_photos
  /\ UNCHANGED <<diskVars, driveVars, envVars, clockVars, _export_start_time,
                 _forms_list, failed_forms, _export_cancelled, _skipped_forms,
                 _current_form_index, idx, attempt, timeout_triggered,
                 _folder_cache, _contents_cache, _new_folders,
                 formVars, batchVars, callVars, histVars>>
  /\ NoFault

\* lines 1786-1808: init_google_drive, _preload_existing_folders, get_forms
InitDrive ==
  /\ pc = "loaded"
  /\ \/ /\ pc' = "loop"
        /\ _folder_cache' = drive_folders
        /\ _forms_list' = Forms
        /\ timeout_triggered' = FALSE
        /\ idx' = 1
        /\ NoFault
     \/ \* init_google_drive returns False, or get_forms raises
        /\ Fault
        /\ pc' = "done"
        /\ UNCHANGED <<_folder_cache, _forms_list, timeout_triggered, idx>>
  /\ UNCHANGED <<diskVars, driveVars, envVars, clockVars, _export_start_time,
                 stats, failed_forms, _uploaded_photos, _export_cancelled,
                 _skipped_forms, _current_form_index, start_form_index, attempt,
                 _contents_cache, _new_folders, formVars, batchVars, callVars,
                 histVars>>

\* time passes between two readings of the clock
Tick ==
  /\ pc = "loop"
  /\ ticks < MaxTicks
  /\ ticks' = ticks + 1
  /\ now' = now + TickStep
  /\ UNCHANGED <<diskVars, driveVars, envVars, pc, objVars, formVars, batchVars,
                 callVars, histVars>>
  /\ NoFault

\* lines 1812-1815: forms below the resume cursor are passed over
LoopSkip ==
  /\ pc = "loop"
  /\ idx <= NForms
  /\ idx - 1 < start_form_index
  /\ idx' = idx + 1
  /\ UNCHANGED <<diskVars, driveVars, envVars, clockVars, pc, _export_start_time,
                 _forms_list, stats, failed_forms, _uploaded_photos,
                 _export_cancelled, _skipped_forms, _current_form_index,
                 start_form_index, attempt, timeout_triggered, _folder_cache,
                 _contents_cache, _new_folders, formVars, batchVars, callVars,
                 histVars>>
  /\ NoFault

\* lines 1817-1846: cursor tracked, deadline check, quick check, export_form called
LoopTop ==
  /\ pc = "loop"
  /\ idx <= NForms
  /\ idx - 1 >= start_form_index
  /\ _current_form_index' = idx - 1
  /\ IF _check_timeout(_export_start_time, now)
       THEN /\ state_file' = _save_export_state(idx - 1, stats)
            /\ progress_file' = _save_photo_progress(_uploaded_photos)
            /\ timeout_triggered' = TRUE
            /\ pc' = "final"
            /\ UNCHANGED <<stats, idx, attempt, exportCalls>>
       ELSE IF _export_cancelled
       THEN /\ pc' = "final"
            /\ UNCHANGED <<diskVars, stats, idx, attempt, exportCalls,
                           timeout_triggered>>
       ELSE IF cfg.quick_check /\ Form \in _folder_cache
       THEN /\ stats' = [stats EXCEPT !.forms_processed = @ + 1]
            /\ idx' = idx + 1
            /\ UNCHANGED <<diskVars, pc, attempt, exportCalls, timeout_triggered>>
       ELSE /\ pc' = "export"
            /\ attempt' = 0
            /\ exportCalls' = Append(exportCalls, idx - 1)
            /\ UNCHANGED <<diskVars, stats, idx, timeout_triggered>>
  /\ UNCHANGED <<driveVars, envVars, clockVars, _export_start_time, _forms_list,
                 failed_forms, _uploaded_photos, _export_cancelled,
                 _skipped_forms, start_form_index, _folder_cache,
                 _contents_cache, _new_folders, formVars, batchVars, callVars,
                 cleared, signalled, cursorAtStart, progressAtStart,
                 allStoredAtStart, prevEnd, prevK, prevFresh>>
  /\ NoFault

\* the for loop is exhausted
LoopEnd ==
  /\ pc = "loop"
  /\ idx > NForms
  /\ pc' = "final"
  /\ UNCHANGED <<diskVars, driveVars, envVars, clockVars, objVars, formVars,
                 batchVars, callVars, histVars>>
  /\ NoFault

\* ------------------------------------------------ target location cache
\* variant of _list_drive_folder_contents without the known-empty shortcut of
\* lines 417-419: a new folder is listed from the Drive like any other
_list_drive_folder_contents_always_lists(cache, new_folders, files, folder_id, use_cache) ==
  IF use_cache /\ cache[folder_id].hit
    THEN [names |-> cache[folder_id].names, cache |-> cache]
  ELSE [names |-> Listing(files[folder_id]),
        cache |-> IF use_cache
                    THEN [cache EXCEPT ![folder_id] =
                            [hit |-> TRUE, names |-> Listing(files[folder_id])]]
                    ELSE cache]

\* _list_drive_folder_contents: the names returned and the cache afterwards
_list_drive_folder_contents(cache, new_folders, files, folder_id, use_cache) ==
  IF use_cache /\ cache[folder_id].hit
    THEN [names |-> cache[folder_id].names, cache |-> cache]
  ELSE IF folder_id \in new_folders
    THEN [names |-> {},
          cache |-> [cache EXCEPT ![folder_id] = [hit |-> TRUE, names |-> {}]]]
  ELSE [names |-> Listing(files[folder_id]),
        cache |-> IF use_cache
                    THEN [cache EXCEPT ![folder_id] =
                            [hit |-> TRUE, names |-> Listing(files[folder_id])]]
                    ELSE cache]

\* self._contents_cache.pop(folder_id, None)
Invalidate(cache, folder_id) ==
  [cache EXCEPT ![folder_id] = [hit |-> FALSE, names |-> {}]]

\* delete_photos_from_drive: one file id is kept per name, one copy is deleted
FilesAfterDelete(files, filenames) ==
  [n \in AllNames |-> IF n \in filenames /\ files[n] > 0 THEN files[n] - 1 ELSE files[n]]

DeletedCount(files, filenames) == Cardinality({n \in filenames : files[n] > 0})

\* service.files().create(...): one more file of that name
FilesAfterCreate(files, filename) == [files EXCEPT ![filename] = @ + 1]

\* ----------------------------------------------------------- export_form
\* export_all's handling of an exception raised by export_form (lines 1855-1866)
FormRaisedOSError ==
  IF attempt < form_attempts - 1
    THEN /\ attempt' = attempt + 1
         /\ pc' = "export"
         /\ UNCHANGED idx
    ELSE /\ idx' = idx + 1
         /\ pc' = "loop"
         /\ UNCHANGED attempt

FormRaisedException ==
  /\ idx' = idx + 1
  /\ pc' = "loop"
  /\ UNCHANGED attempt

\* lines 1272-1287: the form's folder is resolved, the records are fetched
GetRecords ==
  /\ pc = "export"
  /\ gate_log' = NoGate
  /\ \/ /\ NoFault
        /\ pc' = "filter"
        /\ _folder_cache' = _folder_cache \cup {Form}
        /\ IF Form \notin _folder_cache /\ Form \notin drive_folders
             THEN /\ drive_folders' = drive_folders \cup {Form}
                  /\ _new_folders' = _new_folders \cup {Form}
             ELSE UNCHANGED <<drive_folders, _new_folders>>
        /\ UNCHANGED <<idx, attempt>>
     \/ \* requests raises (an OSError), or Drive raises ssl.SSLError
        /\ Fault
        /\ FormRaisedOSError
        /\ UNCHANGED <<_folder_cache, drive_folders, _new_folders>>
     \/ \* Drive raises HttpError
        /\ Fault
        /\ FormRaisedException
        /\ UNCHANGED <<_folder_cache, drive_folders, _new_folders>>
  /\ UNCHANGED <<diskVars, drive_files, envVars, clockVars, _export_start_time,
                 _forms_list, stats, failed_forms, _uploaded_photos,
                 _export_cancelled, _skipped_forms, _current_form_index,
                 start_form_index, timeout_triggered, _contents_cache,
                 existing_photos, photos_to_download, skipped,
                 photo_metadata_cache, orphaned_files, deleted_count,
                 failed_photos, uploaded, retry_count, previous_failed_count,
                 batchVars, callVars, histVars>>

\* lines 1361-1384: the listing of the photos folder and the backlog
FilterPhotos ==
  /\ pc = "filter"
  /\ pc' = "metadata"
  /\ LET lst == _list_drive_folder_contents(_contents_cache, _new_folders,
                                            drive_files, Form, TRUE)
         backlog == {p \in all_photos(Form) :
                       NeedsDownload(p, lst.names, _uploaded_photos)}
     IN /\ existing_photos' = lst.names
        /\ _contents_cache' = lst.cache
        /\ photos_to_download' = backlog
        /\ skipped' = Cardinality(all_photos(Form)) - Cardinality(backlog)
  /\ UNCHANGED <<diskVars, driveVars, envVars, clockVars, _export_start_time,
                 _forms_list, stats, failed_forms, _uploaded_photos,
                 _export_cancelled, _skipped_forms, _current_form_index,
                 start_form_index, idx, attempt, timeout_triggered,
                 _folder_cache, _new_folders, photo_metadata_cache,
                 orphaned_files, deleted_count, failed_photos, uploaded,
                 retry_count, previous_failed_count, gate_log, batchVars, callVars,
                 histVars>>
  /\ NoFault

\* get_photos_metadata_batch: the ids of the map it returns
FetchMetadata ==
  /\ pc = "metadata"
  /\ pc' = "cleanup"
  /\ \/ /\ NoFault
        /\ photo_metadata_cache' = all_photos(Form)
     \/ \* the request of the first page fails: the map stays empty
        /\ Fault
        /\ photo_metadata_cache' = {}
  /\ UNCHANGED <<diskVars, driveVars, envVars, clockVars, objVars,
                 existing_photos, photos_to_download, skipped, orphaned_files,
                 deleted_count, failed_photos, uploaded, retry_count,
                 previous_failed_count, gate_log, batchVars, callVars, histVars>>

Responses == WaitOutcomes \cup {"send_failed"}

\* the answers of an approval request, whatever the policy: lines 639-678
Asked(reply) ==
  CASE reply = "send_failed" -> "send_failed"
    [] reply = "skip" -> "skip"
    [] reply = "end" -> "end"
    [] reply = "timeout" -> "timeout"
    [] OTHER -> "approve"

\* variant: auto-delete is tested before the skip flag
GateAutoFirst(orphaned, form_name, reply) ==
  IF orphaned = {} THEN "none"
  ELSE IF cfg.auto_delete THEN "auto_delete"
  ELSE IF cfg.skip_deletions THEN "skip_policy"
  ELSE IF form_name \in cfg.pre_approved THEN "pre_approved"
  ELSE IF cfg.slack_enabled THEN Asked(reply)
  ELSE "no_channel"

\* variant: with a channel, approval is asked for before the policies apply
GateAskFirst(orphaned, form_name, reply) ==
  IF orphaned = {} THEN "none"
  ELSE IF cfg.skip_deletions THEN "skip_policy"
  ELSE IF cfg.slack_enabled THEN Asked(reply)
  ELSE IF cfg.auto_delete THEN "auto_delete"
  ELSE IF form_name \in cfg.pre_approved THEN "pre_approved"
  ELSE "no_channel"

\* variant: a request that cannot be sent counts as no answer
GateFailClosed(orphaned, form_name, reply) ==
  IF orphaned = {} THEN "none"
  ELSE IF cfg.skip_deletions THEN "skip_policy"
  ELSE IF cfg.auto_delete THEN "auto_delete"
  ELSE IF form_name \in cfg.pre_approved THEN "pre_approved"
  ELSE IF cfg.slack_enabled
    THEN IF reply = "send_failed" THEN "timeout" ELSE Asked(reply)
  ELSE "no_channel"

\* cleanup_deleted_photos: the way the approval gate resolves
Gate(orphaned, form_name, reply) ==
  IF orphaned = {} THEN "none"
  ELSE IF cfg.skip_deletions THEN "skip_policy"
  ELSE IF cfg.auto_delete THEN "auto_delete"
  ELSE IF form_name \in cfg.pre_approved THEN "pre_approved"
  ELSE IF cfg.slack_enabled
    THEN Asked(reply)
  ELSE "no_channel"

\* variant: an end decision also deletes
DeletesAlsoEnd(path) ==
  path \in {"auto_delete", "pre_approved", "send_failed", "approve", "no_channel",
            "end"}

\* the paths that reach delete_photos_from_drive
Deletes(path) ==
  path \in {"auto_delete", "pre_approved", "send_failed", "approve", "no_channel"}

\* the paths on which the approval request was posted and its answer awaited
Awaits(path) == path \in {"approve", "skip", "end", "timeout"}

\* lines 639-653: the approval request is posted (an answer would be heeded)
Posts(orphaned, form_name) == Awaits(Gate(orphaned, form_name, "approve"))

\* the action cleanup_deleted_photos returns
ActionOf(path) ==
  IF path \in {"skip_policy", "skip", "timeout"} THEN "skipped"
  ELSE IF path = "end" THEN "ended"
  ELSE "approved"

\* delete_photos_from_drive, lines 279-283: the deletes Drive may refuse
Refusals(orphaned) == {{}} \cup {{n} : n \in orphaned}

\* cleanup_deleted_photos once the answer (if one is asked for) is known,
\* and lines 1390-1393 of export_form
Resolve(orphaned, cache, reply, refused) ==
  LET path == Gate(orphaned, Form, reply)
  IN /\ orphaned_files' = orphaned
     /\ IF Deletes(path)
          THEN /\ drive_files' =
                    [drive_files EXCEPT
                       ![Form] = FilesAfterDelete(@, orphaned \ refused)]
               /\ deleted_count' = DeletedCount(drive_files[Form], orphaned \ refused)
               /\ _contents_cache' = Invalidate(cache, Form)
          ELSE /\ deleted_count' = 0
               /\ _contents_cache' = cache
               /\ UNCHANGED drive_files
     /\ _skipped_forms' =
          CASE path = "skip" ->
                 Append(_skipped_forms,
                        [form |-> Form, reason |-> "user requested",
                         photos |-> Cardinality(orphaned)])
            [] path = "timeout" ->
                 Append(_skipped_forms,
                        [form |-> Form, reason |-> "no response",
                         photos |-> Cardinality(orphaned)])
            [] OTHER -> _skipped_forms
     /\ _export_cancelled' = (_export_cancelled \/ path = "end")
     /\ gate_log' =
          [path |-> path,
           request |-> IF ~Posts(orphaned, Form) THEN "none"
                       ELSE IF reply = "send_failed" THEN "failed" ELSE "sent",
           awaited |-> Awaits(path),
           reply |-> IF Awaits(path) THEN reply ELSE "none",
           action |-> ActionOf(path),
           delete_calls |-> IF Deletes(path)
                              THEN {n \in orphaned : drive_files[Form][n] > 0}
                              ELSE {},
           orphans |-> orphaned]
     /\ pc' = IF path = "end" THEN "final" ELSE "transfer"
     /\ UNCHANGED <<diskVars, drive_folders, envVars, clockVars, _export_start_time,
                    _forms_list, stats, failed_forms, _uploaded_photos,
                    _current_form_index, start_form_index, idx, attempt,
                    timeout_triggered, _folder_cache, _new_folders,
                    existing_photos, photos_to_download, skipped,
                    photo_metadata_cache, failed_photos, uploaded, retry_count,
                    previous_failed_count, batchVars, callVars, histVars>>

\* lines 1389-1393 with cleanup_deleted_photos
Cleanup ==
  /\ pc = "cleanup"
  /\ LET lst == _list_drive_folder_contents(_contents_cache, _new_folders,
                                            drive_files, Form, TRUE)
         orphaned == identify_orphaned_photos(lst.names, photo_metadata_cache)
     IN \E reply \in Responses : \E refused \in Refusals(orphaned) :
          /\ Resolve(orphaned, lst.cache, reply, refused)
          /\ IF refused = {}
               THEN NoFault
               ELSE Deletes(Gate(orphaned, Form, reply)) /\ Fault

\* executor.submit for every photo of the batch
Submit(S) ==
  /\ photos' = S
  /\ wst' = [p \in AllPhotoIds |-> IF p \in S THEN "queued" ELSE "none"]
  /\ watt' = ZeroCalls
  /\ yielded' = {}
  /\ all_results' = {}
  /\ failed' = {}

NoBatch ==
  /\ photos' = {}
  /\ wst' = Idle
  /\ watt' = ZeroCalls
  /\ yielded' = {}
  /\ all_results' = {}
  /\ failed' = {}

\* lines 1395-1405: the first attempt is submitted
BeginTransfer ==
  /\ pc = "transfer"
  /\ failed_photos' = {}
  /\ uploaded' = 0
  /\ retry_count' = 0
  /\ previous_failed_count' = 0
  /\ IF photos_to_download = {}
       THEN /\ pc' = "listing"
            /\ UNCHANGED batchVars
       ELSE /\ pc' = "batch"
            /\ Submit(photos_to_download)
  /\ UNCHANGED <<diskVars, driveVars, envVars, clockVars, objVars,
                 existing_photos, photos_to_download, skipped,
                 photo_metadata_cache, orphaned_files, deleted_count, gate_log,
                 callVars, histVars>>
  /\ NoFault

\* ------------------------------- _download_and_upload_photos and workers
Running == {p \in AllPhotoIds : wst[p] \in {"fetch", "fetch_mem", "upload"}}
Unfinished == {p \in AllPhotoIds : wst[p] \in {"queued", "fetch", "fetch_mem", "upload"}}

WorkerPcs == {"batch", "batch_wait", "sig_exit"}

\* attempt `watt` of max_retries met a retried error: next attempt or give up
AfterRetriedError(p, retries) ==
  IF watt[p] < retries - 1
    THEN /\ watt' = [watt EXCEPT ![p] = @ + 1]
         /\ UNCHANGED wst
    ELSE /\ wst' = [wst EXCEPT ![p] = "failed"]
         /\ UNCHANGED watt

\* a pool thread takes the future: _process_single_photo begins
WorkerStart(p) ==
  /\ pc \in WorkerPcs
  /\ wst[p] = "queued"
  /\ Cardinality(Running) < max_workers
  /\ wst' = [wst EXCEPT ![p] =
               IF photo_metadata_cache # {} /\ p \in photo_metadata_cache
                 THEN IF Rejected(PhotoData(p)) THEN "failed" ELSE "fetch"
                 ELSE "fetch_mem"]
  /\ watt' = [watt EXCEPT ![p] = 0]
  /\ UNCHANGED <<diskVars, driveVars, envVars, clockVars, pc, objVars, formVars,
                 photos, yielded, all_results, failed, callVars, histVars>>
  /\ NoFault

\* download_photo_with_metadata / download_photo_to_memory: one GET of the file
WorkerFetch(p) ==
  /\ pc \in WorkerPcs
  /\ wst[p] \in {"fetch", "fetch_mem"}
  /\ fetchCalls' = [fetchCalls EXCEPT ![p] = @ + 1]
  /\ \/ /\ NoFault
        /\ wst' = [wst EXCEPT ![p] =
                     IF wst[p] = "fetch_mem" /\ Rejected(PhotoData(p))
                       THEN "failed" ELSE "upload"]
        /\ watt' = [watt EXCEPT ![p] = 0]
     \/ \* ssl.SSLError or requests' SSLError/ConnectionError: retried with backoff
        /\ Fault
        /\ AfterRetriedError(p, max_retries)
     \/ \* any other exception (an HTTP error status): the photo has failed
        /\ Fault
        /\ wst' = [wst EXCEPT ![p] = "failed"]
        /\ UNCHANGED watt
  /\ UNCHANGED <<diskVars, driveVars, envVars, clockVars, pc, objVars, formVars,
                 photos, yielded, all_results, failed, createCalls, createOk,
                 histVars>>

\* variant of WorkerCreate: the pool thread counts its own upload into the
\* run counters instead of leaving that to export_form
WorkerCreateCounting(p) ==
  /\ pc \in WorkerPcs
  /\ wst[p] = "upload"
  /\ createCalls' = [createCalls EXCEPT ![p] = @ + 1]
  /\ \/ /\ NoFault
        /\ drive_files' =
             [drive_files EXCEPT ![Form] =
                FilesAfterCreate(@, FileName(p, ExtOf(PhotoData(p))))]
        /\ createOk' = [createOk EXCEPT ![p] = @ + 1]
        /\ _uploaded_photos' = _record_photo_uploaded(_uploaded_photos, p)
        /\ progress_file' =
             ProgressAfterRecord(progress_file,
                                 _record_photo_uploaded(_uploaded_photos, p))
        /\ wst' = [wst EXCEPT ![p] = "ok"]
        /\ stats' = [stats EXCEPT !.photos_uploaded = @ + 1]
        /\ UNCHANGED watt
     \/ \* HttpError 429/403/500/503, ssl.SSLError or OSError: create is retried
        /\ Fault
        /\ AfterRetriedError(p, max_retries)
        /\ UNCHANGED <<drive_files, createOk, _uploaded_photos, progress_file, stats>>
     \/ \* any other HttpError or exception: the upload has failed
        /\ Fault
        /\ wst' = [wst EXCEPT ![p] = "failed"]
        /\ UNCHANGED <<watt, drive_files, createOk, _uploaded_photos, progress_file,
                       stats>>
  /\ UNCHANGED <<state_file, drive_folders, envVars, clockVars, pc,
                 _export_start_time, _forms_list, failed_forms,
                 _export_cancelled, _skipped_forms, _current_form_index,
                 start_form_index, idx, attempt, timeout_triggered,
                 _folder_cache, _contents_cache, _new_folders, formVars,
                 photos, yielded, all_results, failed, fetchCalls, histVars>>

\* _upload_to_drive: one files().create call, then _record_photo_uploaded
WorkerCreate(p) ==
  /\ pc \in WorkerPcs
  /\ wst[p] = "upload"
  /\ createCalls' = [createCalls EXCEPT ![p] = @ + 1]
  /\ \/ /\ NoFault
        /\ drive_files' =
             [drive_files EXCEPT ![Form] =
                FilesAfterCreate(@, FileName(p, ExtOf(PhotoData(p))))]
        /\ createOk' = [createOk EXCEPT ![p] = @ + 1]
        /\ _uploaded_photos' = _record_photo_uploaded(_uploaded_photos, p)
        /\ progress_file' =
             ProgressAfterRecord(progress_file,
                                 _record_photo_uploaded(_uploaded_photos, p))
        /\ wst' = [wst EXCEPT ![p] = "ok"]
        /\ UNCHANGED watt
     \/ \* HttpError 429/403/500/503, ssl.SSLError or OSError: create is retried
        /\ Fault
        /\ AfterRetriedError(p, max_retries)
        /\ UNCHANGED <<drive_files, createOk, _uploaded_photos, progress_file>>
     \/ \* any other HttpError or exception: the upload has failed
        /\ Fault
        /\ wst' = [wst EXCEPT ![p] = "failed"]
        /\ UNCHANGED <<watt, drive_files, createOk, _uploaded_photos, progress_file>>
  /\ UNCHANGED <<state_file, drive_folders, envVars, clockVars, pc,
                 _export_start_time, _forms_list, stats, failed_forms,
                 _export_cancelled, _skipped_forms, _current_form_index,
                 start_form_index, idx, attempt, timeout_triggered,
                 _folder_cache, _contents_cache, _new_folders, formVars,
                 photos, yielded, all_results, failed, fetchCalls, histVars>>

\* as_completed yields a finished future: lines 1601-1619
Collect(p) ==
  /\ pc = "batch"
  /\ p \in photos \ yielded
  /\ wst[p] \in {"ok", "failed"}
  /\ yielded' = yielded \cup {p}
  /\ all_results' = all_results \cup {p}
  /\ failed' = IF wst[p] = "failed" THEN failed \cup {p} ELSE failed
  /\ UNCHANGED <<diskVars, driveVars, envVars, clockVars, pc, objVars, formVars,
                 photos, wst, watt, callVars, histVars>>
  /\ NoFault

\* as_completed raises TimeoutError: lines 1637-1647
BatchTimeout ==
  /\ pc = "batch"
  /\ photos \ yielded # {}
  /\ Fault
  /\ pc' = "batch_wait"
  /\ LET pending_futures == {p \in photos : wst[p] \notin {"ok", "failed"}}
     IN /\ all_results' = all_results \cup pending_futures
        /\ failed' = failed \cup pending_futures
        \* future.cancel() cancels only what no thread has taken
        /\ wst' = [p \in AllPhotoIds |->
                     IF wst[p] = "queued" THEN "cancelled" ELSE wst[p]]
  /\ UNCHANGED <<diskVars, driveVars, envVars, clockVars, objVars, formVars,
                 photos, watt, yielded, callVars, histVars>>

\* variant: the first retry round without progress ends the retrying
GivesUpAtOnce(retries, still, previous) == still >= previous

\* lines 1425-1429: no progress made, and retry_count >= 2
GivesUp(retries, still, previous) ==
  still >= previous /\ retries >= give_up_after

\* the executor has shut down and the batch returns to export_form:
\* lines 1405-1433, the first attempt or a retry round is accounted
BatchReturn ==
  /\ \/ pc = "batch" /\ yielded = photos
     \/ pc = "batch_wait" /\ Unfinished = {}
  /\ LET first == retry_count = 0
         still_failed == failed
         no_progress == Cardinality(still_failed) >= previous_failed_count
         give_up == ~first /\ GivesUp(retry_count, Cardinality(still_failed),
                                       previous_failed_count)
         failed1 == IF give_up THEN failed_photos ELSE still_failed
         uploaded1 ==
           IF first
             THEN Cardinality(photos_to_download) - Cardinality(still_failed)
             ELSE uploaded + (Cardinality(failed_photos) - Cardinality(still_failed))
         previous1 ==
           IF first \/ ~no_progress
             THEN Cardinality(still_failed)
             ELSE previous_failed_count
         again == ~give_up /\ failed1 # {} /\ retry_count < batch_retry_rounds
     IN /\ failed_photos' = failed1
        /\ uploaded' = uploaded1
        /\ previous_failed_count' = previous1
        /\ IF again
             THEN /\ retry_count' = retry_count + 1
                  /\ Submit(failed1)
                  /\ pc' = "batch"
             ELSE /\ NoBatch
                  /\ pc' = "listing"
                  /\ UNCHANGED retry_count
  /\ UNCHANGED <<diskVars, driveVars, envVars, clockVars, objVars,
                 existing_photos, photos_to_download, skipped,
                 photo_metadata_cache, orphaned_files, deleted_count, gate_log,
                 callVars, histVars>>
  /\ NoFault

\* lines 1455-1538 and export_all 1851-1854: the final listing, the counters
FinishForm ==
  /\ pc = "listing"
  /\ \/ /\ NoFault
        /\ LET lst == _list_drive_folder_contents(_contents_cache, _new_folders,
                                                  drive_files, Form, FALSE)
           IN _contents_cache' = lst.cache
        /\ stats' = [stats EXCEPT
                       !.forms_processed = @ + 1,
                       !.photos_uploaded = @ + uploaded,
                       !.photos_skipped = @ + skipped,
                       !.photos_failed = @ + Cardinality(failed_photos),
                       !.photos_deleted = @ + deleted_count]
        /\ failed_forms' =
             {f \in failed_forms : f.name # Form} \cup
             (IF failed_photos # {}
                THEN {[name |-> Form, photos_failed |-> Cardinality(failed_photos)]}
                ELSE {})
        /\ idx' = idx + 1
        /\ pc' = "loop"
        /\ UNCHANGED attempt
     \/ \* the listing raises ssl.SSLError (an OSError)
        /\ Fault
        /\ FormRaisedOSError
        /\ UNCHANGED <<_contents_cache, stats, failed_forms>>
     \/ \* the listing raises HttpError
        /\ Fault
        /\ FormRaisedException
        /\ UNCHANGED <<_contents_cache, stats, failed_forms>>
  /\ UNCHANGED <<diskVars, driveVars, envVars, clockVars, _export_start_time,
                 _forms_list, _uploaded_photos, _export_cancelled,
                 _skipped_forms, _current_form_index, start_form_index,
                 timeout_triggered, _folder_cache, _new_folders, formVars,
                 batchVars, callVars, histVars>>

\* ------------------------------------------------------- end of a run
\* lines 1871-1882: final progress save, status, _clear_export_state
Finalize ==
  /\ pc = "final"
  /\ pc' = "report"
  /\ IF ShouldClear(timeout_triggered, _export_cancelled)
       THEN /\ state_file' = NoState
            /\ progress_file' = NoProgress
            /\ cleared' = TRUE
       ELSE /\ progress_file' = _save_photo_progress(_uploaded_photos)
            /\ UNCHANGED <<state_file, cleared>>
  /\ UNCHANGED <<driveVars, envVars, clockVars, objVars, formVars, batchVars,
                 callVars, exportCalls, signalled, cursorAtStart,
                 progressAtStart, allStoredAtStart, prevEnd, prevK, prevFresh>>
  /\ NoFault

\* lines 1884-1927: the summary is logged and sent, export_all returns
Report ==
  /\ pc = "report"
  /\ pc' = "done"
  /\ UNCHANGED <<diskVars, driveVars, envVars, clockVars, objVars, formVars,
                 batchVars, callVars, histVars>>
  /\ NoFault

SignalPcs ==
  {"installed", "loaded", "loop", "export", "filter", "metadata", "cleanup",
   "transfer", "batch", "batch_wait", "listing", "final", "report"}

\* handle_shutdown, lines 1747-1753: SIGTERM or SIGINT reaches the main thread
Signal ==
  /\ pc \in SignalPcs
  /\ signals < MaxSignals
  /\ signals' = signals + 1
  /\ pc' = "sig_exit"
  /\ signalled' = TRUE
  /\ state_file' = IF _forms_list # NoList
                     THEN _save_export_state(_current_form_index, stats)
                     ELSE state_file
  /\ progress_file' = _save_photo_progress(_uploaded_photos)
  /\ UNCHANGED <<driveVars, envVars, clockVars, objVars, formVars, batchVars,
                 callVars, exportCalls, cleared, cursorAtStart,
                 progressAtStart, allStoredAtStart, prevEnd, prevK, prevFresh>>
  /\ UNCHANGED <<faults, runFaults>>

\* save_on_exit, lines 1759-1763: the interpreter exits once the pool is idle
AtExit ==
  /\ pc \in {"done", "sig_exit"}
  /\ Unfinished = {}
  /\ pc' = "exited"
  /\ progress_file' = IF _forms_list # NoList /\ _current_form_index < Len(_forms_list)
                        THEN _save_photo_progress(_uploaded_photos)
                        ELSE progress_file
  /\ UNCHANGED <<state_file, driveVars, envVars, clockVars, objVars, formVars,
                 batchVars, callVars, histVars>>
  /\ NoFault

\* how the run that has exited ended
EndOfRun ==
  IF signalled THEN "signal"
  ELSE IF timeout_triggered THEN "timeout"
  ELSE IF _export_cancelled THEN "ended"
  ELSE IF cleared THEN "complete"
  ELSE "aborted"

\* the workflow is run again: __init__ (lines 83-136) in a new process
Restart ==
  /\ pc = "exited"
  /\ run < MaxRuns
  /\ run' = run + 1
  /\ pc' = "start"
  /\ _export_start_time' = NoTime
  /\ _forms_list' = NoList
  /\ stats' = ZeroStats
  /\ failed_forms' = {}
  /\ _uploaded_photos' = {}
  /\ _export_cancelled' = FALSE
  /\ _skipped_forms' = <<>>
  /\ _current_form_index' = 0
  /\ start_form_index' = 0
  /\ idx' = 1
  /\ attempt' = 0
  /\ timeout_triggered' = FALSE
  /\ _folder_cache' = {}
  /\ _contents_cache' = NoCache
  /\ _new_folders' = {}
  /\ existing_photos' = {}
  /\ photos_to_download' = {}
  /\ skipped' = 0
  /\ photo_metadata_cache' = {}
  /\ orphaned_files' = {}
  /\ deleted_count' = 0
  /\ failed_photos' = {}
  /\ uploaded' = 0
  /\ retry_count' = 0
  /\ previous_failed_count' = 0
  /\ gate_log' = NoGate
  /\ NoBatch
  /\ ticks' = 0
  /\ runFaults' = 0
  /\ createCalls' = ZeroCalls
  /\ createOk' = ZeroCalls
  /\ fetchCalls' = ZeroCalls
  /\ exportCalls' = <<>>
  /\ cleared' = FALSE
  /\ signalled' = FALSE
  /\ cursorAtStart' = IF state_file.exists THEN state_file.form_index ELSE 0
  /\ progressAtStart' = progress_file.uploaded_photos
  /\ allStoredAtStart' = AllStored(drive_files)
  /\ prevEnd' = EndOfRun
  /\ prevK' = idx - 1
  /\ prevFresh' = (start_form_index = 0)
  /\ now' = 0
  /\ UNCHANGED <<diskVars, driveVars, cfg, waitVars, xfer, pool, loop, report, threadVars, faults,
                 signals>>

Next ==
  \/ InstallHandlers
  \/ LoadState
  \/ InitDrive
  \/ Tick
  \/ LoopSkip
  \/ LoopTop
  \/ LoopEnd
  \/ GetRecords
  \/ FilterPhotos
  \/ FetchMetadata
  \/ Cleanup
  \/ BeginTransfer
  \/ \E p \in AllPhotoIds : WorkerStart(p)
  \/ \E p \in AllPhotoIds : WorkerFetch(p)
  \/ \E p \in AllPhotoIds : WorkerCreate(p)
  \/ \E p \in AllPhotoIds : Collect(p)
  \/ BatchTimeout
  \/ BatchReturn
  \/ FinishForm
  \/ Finalize
  \/ Report
  \/ Signal
  \/ AtExit
  \/ Restart

Spec == Init /\ [][Next]_vars

\* ---------------------------------------------- one approval wait, step by step
\* lines 639-654: the orphans are identified, no policy applies, the request
\* is posted and wait_for_slack_approval starts; the channel holds what will
\* be posted on it from then on
PostRequest ==
  /\ pc = "cleanup"
  /\ LET lst == _list_drive_folder_contents(_contents_cache, _new_folders,
                                            drive_files, Form, TRUE)
         orphaned == identify_orphaned_photos(lst.names, photo_metadata_cache)
     IN /\ Posts(orphaned, Form)
        /\ orphaned_files' = orphaned
        /\ _contents_cache' = lst.cache
  /\ channel' \in Channels
  /\ wait_elapsed' = 0
  /\ response' = "none"
  /\ pc' = "await"
  /\ UNCHANGED <<diskVars, driveVars, cfg, run, xfer, pool, loop, report, threadVars, clockVars, _export_start_time,
                 _forms_list, stats, failed_forms, _uploaded_photos,
                 _export_cancelled, _skipped_forms, _current_form_index,
                 start_form_index, idx, attempt, timeout_triggered,
                 _folder_cache, _new_folders, existing_photos,
                 photos_to_download, skipped, photo_metadata_cache,
                 deleted_count, failed_photos, uploaded, retry_count,
                 previous_failed_count, gate_log, batchVars, callVars, histVars>>
  /\ NoFault

\* lines 205-228: one turn of the while loop, a history call, the scan of its
\* messages and, when none of them resolves the wait, the sleep
PollChannel ==
  /\ pc = "await"
  /\ response = "none"
  /\ wait_elapsed < timeout_minutes * 60
  /\ LET found == ScanMessages(get_slack_messages_since(channel, wait_elapsed), 1)
     IN IF found # "none"
          THEN /\ response' = found
               /\ UNCHANGED wait_elapsed
          ELSE /\ wait_elapsed' = wait_elapsed + channel.latency + poll_interval
               /\ UNCHANGED response
  /\ UNCHANGED <<diskVars, driveVars, cfg, run, xfer, pool, loop, report, threadVars, channel,
                 clockVars, pc,
                 objVars,
                 formVars, batchVars, callVars, histVars>>
  /\ NoFault

\* lines 205 and 230: the while condition fails, 'timeout' is returned
WaitExpires ==
  /\ pc = "await"
  /\ response = "none"
  /\ ~(wait_elapsed < timeout_minutes * 60)
  /\ response' = "timeout"
  /\ UNCHANGED <<diskVars, driveVars, cfg, run, xfer, pool, loop, report, threadVars, channel,
                 wait_elapsed,
                 clockVars,
                 pc, objVars, formVars, batchVars, callVars, histVars>>
  /\ NoFault

\* lines 656-678 and 1390-1393: what cleanup_deleted_photos does with the answer
ResolveAwaited ==
  /\ pc = "await"
  /\ response # "none"
  /\ Resolve(orphaned_files, _contents_cache, response, {})
  /\ NoFault

WaitNext ==
  \/ InstallHandlers
  \/ LoadState
  \/ InitDrive
  \/ LoopTop
  \/ GetRecords
  \/ FilterPhotos
  \/ FetchMetadata
  \/ PostRequest
  \/ PollChannel
  \/ WaitExpires
  \/ ResolveAwaited

\* the wait runs in the main thread, which does nothing else meanwhile: every
\* history call returns within its request timeout and every sleep ends
WaitSpec == Init /\ [][WaitNext]_vars /\ WF_vars(WaitNext)

\* --------------------------------------------- one transfer, step by step
\* the transfer that is followed runs apart from the exporter's own state
OnlyTransfer ==
  UNCHANGED <<diskVars, driveVars, cfg, run, waitVars, pool, loop, report, threadVars, clockVars,
              faults, signals, runFaults, pc, objVars, formVars, batchVars,
              callVars, histVars>>

\* _process_single_photo, lines 1552-1558, and the validation at the head of
\* download_photo_with_metadata (lines 1141-1146)
ProcessSinglePhoto ==
  /\ OnlyTransfer
  /\ xfer.pc = "call"
  /\ xfer' =
       IF xfer.photo.cached
         THEN IF Rejected(xfer.photo)
                THEN [xfer EXCEPT !.pc = "done", !.download = "error",
                                  !.last = "rejected"]
                ELSE [xfer EXCEPT !.pc = "fetch"]
         ELSE [xfer EXCEPT !.pc = "metadata"]

\* a retried GET failed: sleep and go round, or leave the loop with the error
AfterGetError(state, again) ==
  IF AttemptsLeft(state.attempt, max_retries)
    THEN [state EXCEPT !.pc = again, !.attempt = @ + 1, !.last = "ssl",
                       !.sleeps = Append(@, [kind |-> "linear",
                                             delay |-> linear_wait(state.attempt)])]
    ELSE [state EXCEPT !.pc = "done", !.download = "error", !.last = "ssl"]

\* download_photo_to_memory, lines 1178-1193: the GET of photos/<id>.json
\* and the validation of its answer
MemoryMetadata ==
  /\ OnlyTransfer
  /\ xfer.pc = "metadata"
  /\ \E outcome \in GetOutcomes :
       LET called == [xfer EXCEPT !.meta_calls = @ + 1]
       IN xfer' =
            CASE outcome = "ok" ->
                   IF Rejected(xfer.photo)
                     THEN [called EXCEPT !.pc = "done", !.download = "error",
                                         !.last = "rejected"]
                     ELSE [called EXCEPT !.pc = "fetch"]
              [] outcome = "ssl" -> AfterGetError(called, "metadata")
              [] OTHER -> [called EXCEPT !.pc = "done", !.download = "error",
                                         !.last = "error"]

\* lines 1155-1169 and 1199-1213: the GET of photos/<id>.jpg
DownloadGet ==
  /\ OnlyTransfer
  /\ xfer.pc = "fetch"
  /\ \E outcome \in GetOutcomes :
       LET called == [xfer EXCEPT !.fetch_calls = @ + 1]
       IN xfer' =
            CASE outcome = "ok" ->
                   [called EXCEPT !.pc = "upload", !.attempt = 0,
                                  !.fetched = TRUE, !.download = "content"]
              [] outcome = "ssl" ->
                   AfterGetError(called,
                                 IF xfer.photo.cached THEN "fetch" ELSE "metadata")
              [] OTHER -> [called EXCEPT !.pc = "done", !.download = "error",
                                         !.last = "error"]

\* _upload_to_drive, lines 689-724: one files().create call and what follows
UploadCreate ==
  /\ OnlyTransfer
  /\ xfer.pc = "upload"
  /\ \E outcome \in CreateOutcomes :
       LET called == [xfer EXCEPT !.create_calls = @ + 1, !.last = outcome.kind,
                                  !.status = outcome.status]
           more == AttemptsLeft(xfer.attempt, max_retries)
       IN xfer' =
            CASE outcome.kind = "ok" ->
                   [called EXCEPT !.pc = "done", !.created = TRUE, !.upload = "true"]
              [] outcome.kind = "http" /\ outcome.status \in BackoffStatuses ->
                   LET slept ==
                         [called EXCEPT
                            !.sleeps = Append(@, [kind |-> "exponential",
                                                  delay |-> wait_time(xfer.attempt)])]
                   IN IF more
                        THEN [slept EXCEPT !.attempt = @ + 1]
                        ELSE [slept EXCEPT !.pc = "done", !.upload = "false"]
              [] outcome.kind = "http" ->
                   [called EXCEPT !.pc = "done", !.upload = "false",
                                  !.last = "permanent"]
              [] OTHER ->
                   IF more
                     THEN [called EXCEPT
                             !.attempt = @ + 1,
                             !.sleeps = Append(@, [kind |-> "linear",
                                                   delay |-> linear_wait(xfer.attempt)])]
                     ELSE [called EXCEPT !.pc = "done", !.upload = "false"]

TransferNext ==
  \/ ProcessSinglePhoto
  \/ MemoryMetadata
  \/ DownloadGet
  \/ UploadCreate

TransferInit ==
  /\ ProcessStart
  /\ pool = NoPool
  /\ loop = NoLoop
  /\ report = NoReport
  /\ recd = NoRecording
  /\ svc = NoServices
  /\ wide = NoWidePool
  /\ \E photo_data \in PhotoInputs : xfer = NewTransfer(photo_data)

\* one call of _process_single_photo for every photo input, its network
\* calls answered in every way
TransferSpec == TransferInit /\ [][TransferNext]_vars

\* ------------------------------------------------ one batch, step by step
\* the batch that is followed runs apart from the exporter's own state
OnlyPool ==
  UNCHANGED <<diskVars, driveVars, cfg, run, waitVars, xfer, loop, report, threadVars, clockVars,
              faults, signals, runFaults, pc, objVars, formVars, batchVars,
              callVars, histVars>>

\* the pool threads in a call of _process_single_photo
Busy == {f \in Futures : pool.future[f] \in {"running", "hung"}}

\* a pool thread takes a queued future (the pool has max_workers threads);
\* the executor goes on doing so while the `with` block waits to exit
PoolStart(f) ==
  /\ OnlyPool
  /\ pool.pc \in {"as_completed", "shutdown"}
  /\ pool.future[f] = "queued"
  /\ Cardinality(Busy) < max_workers
  /\ pool' = [pool EXCEPT !.future[f] = "running"]

\* _process_single_photo returns: success or not (lines 1559, 1572, 1578)
PoolFinish(f) ==
  /\ OnlyPool
  /\ pool.pc \in {"as_completed", "shutdown"}
  /\ pool.future[f] = "running"
  /\ \E result \in {"ok", "failed"} : pool' = [pool EXCEPT !.future[f] = result]

\* a call inside _process_single_photo never returns
PoolHang(f) ==
  /\ OnlyPool
  /\ pool.pc \in {"as_completed", "shutdown"}
  /\ pool.future[f] = "running"
  /\ pool' = [pool EXCEPT !.future[f] = "hung"]

\* time passes while as_completed waits: no finished future is left to yield
PoolElapse ==
  /\ OnlyPool
  /\ pool.pc = "as_completed"
  /\ pool.elapsed < MaxBatchTime
  /\ \A f \in Futures \ pool.yielded : pool.future[f] \notin {"ok", "failed"}
  /\ pool' = [pool EXCEPT !.elapsed = @ + TimeStep]

\* lines 1602-1619: as_completed yields a finished future
PoolYield(f) ==
  /\ OnlyPool
  /\ pool.pc = "as_completed"
  /\ f \notin pool.yielded
  /\ pool.future[f] \in {"ok", "failed"}
  /\ pool' = [pool EXCEPT
                !.yielded = @ \cup {f},
                !.all_results = @ \cup {f},
                !.failed = IF pool.future[f] = "failed" THEN @ \cup {f} ELSE @,
                !.last_completion = pool.elapsed]

\* lines 1637-1647: as_completed finds its end time passed with futures not
\* yet yielded and raises TimeoutError; those not done are marked stalled and
\* cancelled, which stops only the ones no thread has taken
PoolTimeout ==
  /\ OnlyPool
  /\ pool.pc = "as_completed"
  /\ pool.yielded # Futures
  /\ pool.elapsed >= Deadline(pool)
  /\ LET pending_futures == {f \in Futures : ~done(pool.future[f])}
     IN pool' = [pool EXCEPT
                   !.pc = "shutdown",
                   !.all_results = @ \cup pending_futures,
                   !.failed = @ \cup pending_futures,
                   !.stalled = pending_futures,
                   !.stalled_after = pool.elapsed - pool.last_completion,
                   !.future = [f \in Futures |->
                                 IF pool.future[f] = "queued"
                                   THEN "cancelled" ELSE pool.future[f]]]

\* every future was yielded: the for loop ends
PoolDrained ==
  /\ OnlyPool
  /\ pool.pc = "as_completed"
  /\ pool.yielded = Futures
  /\ pool' = [pool EXCEPT !.pc = "shutdown"]

\* line 1592, leaving the `with` block: ThreadPoolExecutor.__exit__ is
\* shutdown(wait=True), which joins every pool thread; then line 1649
PoolReturn ==
  /\ OnlyPool
  /\ pool.pc = "shutdown"
  /\ \A f \in Futures : done(pool.future[f])
  /\ pool' = [pool EXCEPT !.pc = "returned"]

BatchNext ==
  \/ \E f \in Futures : PoolStart(f)
  \/ \E f \in Futures : PoolFinish(f)
  \/ \E f \in Futures : PoolHang(f)
  \/ PoolElapse
  \/ \E f \in Futures : PoolYield(f)
  \/ PoolTimeout
  \/ PoolDrained
  \/ PoolReturn

BatchInit ==
  /\ ProcessStart
  /\ xfer = NoTransfer
  /\ loop = NoLoop
  /\ report = NoReport
  /\ recd = NoRecording
  /\ svc = NoServices
  /\ wide = NoWidePool
  /\ pool = NewPool

\* one call of _download_and_upload_photos; a step that can be taken is
\* taken: the pool threads run and the clock advances
BatchSpec == BatchInit /\ [][BatchNext]_vars /\ WF_vars(BatchNext)

\* ------------------------------------- the loop over the forms, call by call
\* the loop that is followed runs apart from the exporter's own state
OnlyLoop ==
  UNCHANGED <<diskVars, driveVars, cfg, run, waitVars, xfer, pool, report,
              threadVars, clockVars,
              faults, signals, runFaults, pc, objVars, formVars, batchVars,
              callVars, histVars>>

\* the call of line 1852 has been made and answered
Called(outcome) ==
  [loop EXCEPT !.calls = Append(@, [form |-> Forms[loop.idx],
                                    attempt |-> loop.attempt,
                                    outcome |-> outcome])]

\* lines 1852-1854 and 1868-1869: export_form returns
ExportFormReturns ==
  /\ OnlyLoop
  /\ loop.pc = "call"
  /\ \E outcome \in {"result", "export_ended"} :
       LET appended == [Called(outcome) EXCEPT
                          !.results = Append(@, [form |-> Forms[loop.idx],
                                                 kind |-> "result"])]
       IN loop' = IF outcome = "export_ended"
                    THEN [appended EXCEPT !.pc = "end"]
                    ELSE NextForm(appended)

\* lines 1855-1862: export_form raises ssl.SSLError or another OSError
ExportFormRaisesOSError ==
  /\ OnlyLoop
  /\ loop.pc = "call"
  /\ loop' =
       IF Retries(loop.attempt)
         THEN NextAttempt(Called("oserror"))
         ELSE NextAttempt([Called("oserror") EXCEPT
                             !.results = Append(@, [form |-> Forms[loop.idx],
                                                    kind |-> "error"])])

\* lines 1863-1866: export_form raises any other Exception
ExportFormRaises ==
  /\ OnlyLoop
  /\ loop.pc = "call"
  /\ loop' = NextForm([Called("exception") EXCEPT
                         !.results = Append(@, [form |-> Forms[loop.idx],
                                                kind |-> "error"])])

FormsLoopNext ==
  \/ ExportFormReturns
  \/ ExportFormRaisesOSError
  \/ ExportFormRaises

FormsLoopInit ==
  /\ ProcessStart
  /\ xfer = NoTransfer
  /\ pool = NoPool
  /\ loop = NewLoop
  /\ report = NoReport
  /\ recd = NoRecording
  /\ svc = NoServices
  /\ wide = NoWidePool

\* export_all's loop over the forms with the clock short of the deadline and
\* no end requested, every call of export_form answered in every way
FormsLoopSpec == FormsLoopInit /\ [][FormsLoopNext]_vars

\* ------------------------------------------ the failure summary, run by run
\* the runs that are followed run apart from the exporter's own state
OnlyReport ==
  UNCHANGED <<diskVars, driveVars, cfg, run, waitVars, xfer, pool, loop,
              threadVars, clockVars, faults, signals, runFaults, pc, objVars, formVars,
              batchVars, callVars, histVars>>

\* lines 1819-1826: the deadline is near at the top of the loop, the
\* checkpoint is written and the run ends PAUSED
ReportPause ==
  /\ OnlyReport
  /\ report.pc = "loop"
  /\ report.idx <= NForms
  /\ report' = [report EXCEPT
                  !.pc = "end", !.paused = TRUE,
                  !.state = [exists |-> TRUE, form_index |-> report.idx - 1,
                             photos_failed |-> report.photos_failed]]

\* export_form for the form at the cursor, count of its photos failing:
\* lines 1516-1538, the counter, failed_forms and the summary
ReportExportForm ==
  /\ OnlyReport
  /\ report.pc = "loop"
  /\ report.idx <= NForms
  /\ \E count \in 0..MaxFailed :
       LET forms == FailedFormsAfter(report.failed_forms, Forms[report.idx], count)
       IN report' = [report EXCEPT
                       !.photos_failed = @ + count,
                       !.failed_forms = forms,
                       !.summary = update_failed_downloads_summary(forms),
                       !.last_failed[report.idx] = count,
                       !.idx = @ + 1]

\* lines 1871-1882: the loop is exhausted, the run is COMPLETE and the
\* checkpoint is cleared
ReportComplete ==
  /\ OnlyReport
  /\ report.pc = "loop"
  /\ report.idx > NForms
  /\ report' = [report EXCEPT !.pc = "end", !.paused = FALSE,
                              !.state = NoReport.state]

\* a new process: __init__ (line 119, failed_forms = []) and lines 1765-1775,
\* the cursor and the counters come from the checkpoint if there is one
ReportNextRun ==
  /\ OnlyReport
  /\ report.pc = "end"
  /\ report.run < MaxRuns
  /\ report' = [report EXCEPT
                  !.pc = "loop", !.run = @ + 1, !.paused = FALSE,
                  !.failed_forms = <<>>,
                  !.idx = IF report.state.exists
                            THEN report.state.form_index + 1 ELSE 1,
                  !.photos_failed = IF report.state.exists
                                      THEN report.state.photos_failed ELSE 0]

SummaryNext ==
  \/ ReportPause
  \/ ReportExportForm
  \/ ReportComplete
  \/ ReportNextRun

SummaryInit ==
  /\ ProcessStart
  /\ xfer = NoTransfer
  /\ pool = NoPool
  /\ loop = NoLoop
  /\ report = NewReport
  /\ recd = NoRecording
  /\ svc = NoServices
  /\ wide = NoWidePool

\* the runs of export_all as far as the failure summary goes: every form
\* with every count of failed photos, a pause at any form, a next run
SummarySpec == SummaryInit /\ [][SummaryNext]_vars

\* --------------------------- _record_photo_uploaded, statement by statement
OnlyRecording ==
  UNCHANGED <<diskVars, driveVars, cfg, run, waitVars, xfer, pool, loop, report,
              svc, wide, clockVars, faults, signals, runFaults, pc, objVars,
              formVars, batchVars, callVars, histVars>>

\* line 506: self._uploaded_photos.add(photo_id); reached keeps the set as it
\* was when its size became a multiple of save_every
RecordAdd(w) ==
  /\ recd.pc = "batch"
  /\ recd.at[w] = "call"
  /\ LET ids == _record_photo_uploaded(recd._uploaded_photos, PhotoOf(w))
     IN recd' = [recd EXCEPT
                   !._uploaded_photos = ids,
                   !.at[w] = "added",
                   !.reached = IF Cardinality(ids) % save_every = 0
                                 THEN ids ELSE @]
  /\ OnlyRecording

\* lines 508-509: the size is read after the add, by the same thread, with no
\* lock held in between; _save_photo_progress writes the set as it is then
RecordSave(w) ==
  /\ recd.pc = "batch"
  /\ recd.at[w] = "added"
  /\ recd' = [recd EXCEPT
                !.progress_file = ProgressAfterRecord(@, recd._uploaded_photos),
                !.at[w] = "done"]
  /\ OnlyRecording

RecordNext ==
  \/ \E w \in Workers : RecordAdd(w)
  \/ \E w \in Workers : RecordSave(w)

RecordInit ==
  /\ ProcessStart
  /\ xfer = NoTransfer
  /\ pool = NoPool
  /\ loop = NoLoop
  /\ report = NoReport
  /\ recd \in {NewRecording(n) : n \in StartSizes}
  /\ svc = NoServices
  /\ wide = NoWidePool

\* max_workers threads, each recording one photo, in every interleaving of
\* their statements, from every size of the set near a multiple of save_every
RecordSpec == RecordInit /\ [][RecordNext]_vars

\* ------------------------------------- the Drive services of a batch's threads
OnlyServices ==
  UNCHANGED <<diskVars, driveVars, cfg, run, waitVars, xfer, pool, loop, report,
              recd, wide, clockVars, faults, signals, runFaults, pc, objVars,
              formVars, batchVars, callVars, histVars>>

\* line 683: a pool thread enters _upload_to_drive(use_thread_service=True)
SvcEnter(t) ==
  /\ svc.pc = "batch"
  /\ svc.at[t] = "idle"
  /\ svc.uploads[t] < MaxUploads
  /\ svc' = [svc EXCEPT !.at[t] = "test", !.attempt[t] = 0,
                        !.uploads[t] = @ + 1]
  /\ OnlyServices

\* line 381: the test of _get_thread_service reads self._thread_local
SvcTest(t) ==
  /\ svc.pc = "batch"
  /\ svc.at[t] = "test"
  /\ svc' = [svc EXCEPT !.at[t] =
               IF svc.attr[Slot(svc._thread_local, t)] = 0
                 THEN "build" ELSE "return"]
  /\ OnlyServices

\* line 382: self._thread_local.service = build(...), a new service object
SvcBuild(t) ==
  /\ svc.pc = "batch"
  /\ svc.at[t] = "build"
  /\ svc' = [svc EXCEPT !.attr[Slot(svc._thread_local, t)] = svc.built + 1,
                        !.built = @ + 1,
                        !.at[t] = "return"]
  /\ OnlyServices

\* line 383: return self._thread_local.service reads self._thread_local
\* again; an object replaced since the test has no attribute for the thread
\* and the read raises AttributeError, which ends the thread's transfer
SvcReturn(t) ==
  /\ svc.pc = "batch"
  /\ svc.at[t] = "return"
  /\ IF svc.attr[Slot(svc._thread_local, t)] = 0
       THEN svc' = [svc EXCEPT !.at[t] = "idle", !.service[t] = 0]
       ELSE svc' = [svc EXCEPT !.at[t] = "have",
                               !.service[t] =
                                 svc.attr[Slot(svc._thread_local, t)]]
  /\ OnlyServices

\* lines 689-722: one service.files().create(...).execute() and its outcome
SvcCreate(t) ==
  /\ svc.pc = "batch"
  /\ svc.at[t] = "have"
  /\ \E outcome \in UploadOutcomes :
       /\ outcome = "ssl" => svc.resets < MaxResets
       /\ LET more == svc.attempt[t] + 1 < max_retries
              next == IF outcome = "http_retried" /\ more THEN "have"
                      ELSE IF outcome = "ssl" /\ more THEN "reset"
                      ELSE "idle"
          IN svc' = [svc EXCEPT
                       !.used = @ \cup {<<t, svc.service[t]>>},
                       !.resets = IF outcome = "ssl" THEN @ + 1 ELSE @,
                       !.attempt[t] = IF next = "idle" THEN 0 ELSE @ + 1,
                       !.service[t] = IF next = "idle" THEN 0 ELSE @,
                       !.at[t] = next]
  /\ OnlyServices

\* lines 716-718: self._thread_local.service = None, then _get_thread_service
SvcReset(t) ==
  /\ svc.pc = "batch"
  /\ svc.at[t] = "reset"
  /\ svc' = [svc EXCEPT !.attr[Slot(svc._thread_local, t)] = 0,
                        !.at[t] = "test"]
  /\ OnlyServices

\* lines 1633-1636 and 357-377: the main thread refreshes the token during
\* the batch: a new drive_service and a new threading.local()
SvcRefresh ==
  /\ svc.pc = "batch"
  /\ svc.refreshed < MaxRefresh
  /\ svc' = [svc EXCEPT !.drive_service = svc.built + 1,
                        !.main = @ \cup {svc.built + 1},
                        !.built = @ + 1,
                        !._thread_local = @ + 1,
                        !.refreshed = @ + 1]
  /\ OnlyServices

ServiceNext ==
  \/ \E t \in SvcThreads : SvcEnter(t)
  \/ \E t \in SvcThreads : SvcTest(t)
  \/ \E t \in SvcThreads : SvcBuild(t)
  \/ \E t \in SvcThreads : SvcReturn(t)
  \/ \E t \in SvcThreads : SvcCreate(t)
  \/ \E t \in SvcThreads : SvcReset(t)
  \/ SvcRefresh

ServiceInit ==
  /\ ProcessStart
  /\ xfer = NoTransfer
  /\ pool = NoPool
  /\ loop = NoLoop
  /\ report = NoReport
  /\ recd = NoRecording
  /\ svc = NewServices
  /\ wide = NoWidePool

\* the uploads of the pool threads of one batch, read by read of
\* self._thread_local, with every outcome of a create and a token refresh by
\* the main thread at any moment
ServiceSpec == ServiceInit /\ [][ServiceNext]_vars

\* ------------------------------------------- a batch wider than its pool
OnlyWidePool ==
  UNCHANGED <<diskVars, driveVars, cfg, run, waitVars, xfer, pool, loop, report,
              recd, svc, clockVars, faults, signals, runFaults, pc, objVars,
              formVars, batchVars, callVars, histVars>>

\* a pool thread takes the oldest queued call (the work queue is FIFO)
WideStart(f) ==
  /\ wide.pc \in {"batch", "stalled"}
  /\ wide.fut[f] = "queued"
  /\ \A g \in WidePhotos : g < f => wide.fut[g] # "queued"
  /\ HasIdleThread(InFlight(wide), max_workers)
  /\ wide' = [wide EXCEPT !.fut[f] = "running"]
  /\ OnlyWidePool

\* _process_single_photo returns in its thread
WideFinish(f) ==
  /\ wide.pc \in {"batch", "stalled"}
  /\ wide.fut[f] = "running"
  /\ wide' = [wide EXCEPT !.fut[f] = "done"]
  /\ OnlyWidePool

\* lines 1637-1647: as_completed times out; future.cancel() cancels what no
\* thread has taken, the running calls go on
WideTimeout ==
  /\ wide.pc = "batch"
  /\ \E f \in WidePhotos : wide.fut[f] \in {"queued", "running"}
  /\ wide' = [wide EXCEPT
                !.pc = "stalled",
                !.fut = [f \in WidePhotos |->
                           IF wide.fut[f] = "queued" THEN "cancelled"
                           ELSE wide.fut[f]]]
  /\ OnlyWidePool

\* the with block is left once every thread has ended (shutdown(wait=True));
\* lines 1412-1416: the photos that were cancelled go into a retry round
WideReturn ==
  /\ wide.pc \in {"batch", "stalled"}
  /\ \A f \in WidePhotos : wide.fut[f] \in {"done", "cancelled"}
  /\ IF wide.round < batch_retry_rounds
        /\ \E f \in WidePhotos : wide.fut[f] = "cancelled"
       THEN wide' = [wide EXCEPT
                       !.pc = "batch",
                       !.round = @ + 1,
                       !.fut = [f \in WidePhotos |->
                                  IF wide.fut[f] = "cancelled" THEN "queued"
                                  ELSE wide.fut[f]]]
       ELSE wide' = [wide EXCEPT !.pc = "returned"]
  /\ OnlyWidePool

WidePoolNext ==
  \/ \E f \in WidePhotos : WideStart(f)
  \/ \E f \in WidePhotos : WideFinish(f)
  \/ WideTimeout
  \/ WideReturn

WidePoolInit ==
  /\ ProcessStart
  /\ xfer = NoTransfer
  /\ pool = NoPool
  /\ loop = NoLoop
  /\ report = NoReport
  /\ recd = NoRecording
  /\ svc = NoServices
  /\ wide = NewWidePool

\* the batches of one form with more photos than the pool has threads: the
\* threads take and finish the calls in every order, as_completed may time out
WidePoolSpec == WidePoolInit /\ [][WidePoolNext]_vars

\* ============================================================ properties
ExportPcs ==
  {"export", "filter", "metadata", "cleanup", "transfer", "batch", "batch_wait",
   "listing"}

\* C1: in one run of export_all, files().create is called at most once for
\* each photo id, all attempts, retry rounds and form retries included.
C1_AtMostOneCreate == \A a \in AllPhotoIds : createCalls[a] <= 1

\* C2: after a run that the deadline or a signal interrupted once it had
\* processed prevK forms, the next run calls export_form for the forms
\* prevK, prevK+1, ... in that order, for all of them when it completes, and
\* for no form below prevK.
C2_ResumeFromK ==
  (run > 1 /\ prevEnd \in {"timeout", "signal"}) =>
    /\ \A i \in 1..Len(exportCalls) : exportCalls[i] = prevK + (i - 1)
    /\ (cleared => Len(exportCalls) = NForms - prevK)

\* C3: once a photo id is in _uploaded_photos, no step issues a further
\* download or a further files().create for it.
C3_NoCallOnceRecorded ==
  [][\A a \in AllPhotoIds :
       a \in _uploaded_photos =>
         /\ fetchCalls'[a] <= fetchCalls[a]
         /\ createCalls'[a] <= createCalls[a]]_vars

\* C4: when a process that received a termination signal has exited, the
\* files hold at least the progress known before the signal: every photo id
\* the progress file held at the start of the process and every id recorded
\* since, and a cursor that is not behind the one the process resumed from.
C4_SignalKeepsProgress ==
  (pc = "exited" /\ signalled) =>
    /\ progressAtStart \subseteq progress_file.uploaded_photos
    /\ _uploaded_photos \subseteq progress_file.uploaded_photos
    /\ (state_file.exists => state_file.form_index >= cursorAtStart)

C7_DeadlineStop ==
  /\ pc \in ExportPcs => now - _export_start_time < WORKFLOW_TIMEOUT_SECONDS
  /\ timeout_triggered =>
       /\ now - _export_start_time >= WORKFLOW_TIMEOUT_SECONDS
       /\ state_file.exists
       /\ state_file.form_index = idx - 1
       /\ \A i \in 1..Len(exportCalls) : exportCalls[i] < idx - 1
       /\ pc \notin ExportPcs \cup {"loop"}
       /\ ~cleared

\* the ceiling is reached exactly, before the second form
C7_Witness ==
  /\ timeout_triggered
  /\ now - _export_start_time = WORKFLOW_TIMEOUT_SECONDS
  /\ exportCalls = <<0>>
  /\ state_file.form_index = 1
  /\ pc = "exited"

Stored(a, listing) ==
  \E n \in listing : \E e \in {"jpg", "png"} :
    /\ Len(n) = Len(a) + 2
    /\ SubSeq(n, 1, Len(a)) = a
    /\ n[Len(a) + 1] = "."
    /\ n[Len(a) + 2] = e

\* C9: right after the backlog is built, no photo that the listing holds as
\* <id>.jpg or <id>.png, or whose id is in _uploaded_photos, is in it, and
\* skipped counts the photos left out; and while the form is exported no
\* download and no create is issued for a photo outside the backlog.
C9_SkipRule ==
  [][/\ (pc = "filter" /\ pc' = "metadata") =>
          /\ \A a \in all_photos(Form) :
               (Stored(a, existing_photos') \/ a \in _uploaded_photos)
                 => a \notin photos_to_download'
          /\ photos_to_download' \subseteq all_photos(Form)
          /\ skipped' = Cardinality(all_photos(Form) \ photos_to_download')
     /\ (pc \in ExportPcs \cup {"sig_exit"} /\ pc' \in ExportPcs \cup {"sig_exit"}) =>
          \A a \in AllPhotoIds \ photos_to_download :
            fetchCalls'[a] = fetchCalls[a] /\ createCalls'[a] = createCalls[a]]_vars

\* one photo is left out for its file in the listing, another for its id in
\* the set although the (cached) listing lacks it; the backlog is empty
C9_Witness ==
  /\ pc = "metadata"
  /\ Form = "F1"
  /\ Stored(PA, existing_photos)
  /\ ~Stored(PC, existing_photos)
  /\ PC \in _uploaded_photos
  /\ photos_to_download = {}
  /\ skipped = 2

\* the names of a listing that have a last '.' whose prefix is not a valid id
OrphansOf(listing, valid) ==
  {n \in listing :
     \E i \in 1..Len(n) :
       /\ n[i] = "."
       /\ \A j \in (i + 1)..Len(n) : n[j] # "."
       /\ SubSeq(n, 1, i - 1) \notin valid}

\* C10: identify_orphaned_photos returns exactly the names of the listing
\* whose part before the last '.' is not a valid id; for the listing
\* {A.jpg, B.jpg, C.png} and the valid ids {A, C} it returns {B.jpg}.
C10_Orphans ==
  pc = "transfer" =>
    /\ orphaned_files = OrphansOf(existing_photos, photo_metadata_cache)
    /\ (/\ existing_photos = {<<"A", ".", "jpg">>, <<"B", ".", "jpg">>,
                              <<"C", ".", "png">>}
        /\ photo_metadata_cache = {<<"A">>, <<"C">>})
         => orphaned_files = {<<"B", ".", "jpg">>}

\* a listing with a name of two dots and a name of none: the first is
\* returned, the second is not
C10_Witness ==
  /\ pc = "transfer"
  /\ existing_photos = {<<"A", ".", "png">>, <<"A", ".", "v2", ".", "jpg">>,
                        <<"notes">>}
  /\ photo_metadata_cache = {<<"A">>, <<"C">>}
  /\ orphaned_files = {<<"A", ".", "v2", ".", "jpg">>}

\* ---- approval gate
\* the moments at which a wait on the channel polls it
PollMoments(ch) ==
  {t \in 0..(timeout_minutes * 60 - 1) : t % (ch.latency + poll_interval) = 0}

\* the messages of users on the channel, and those a poll returns
UserReplies(ch) == {i \in 1..Len(ch.posted) : ~ch.posted[i].bot_id}
ReceivedReplies(ch) ==
  {i \in UserReplies(ch) : \E t \in PollMoments(ch) : ch.posted[i].ts <= t}

\* the users' messages all carry this text, and a poll returns one of them
OnlyReply(ch, text) ==
  /\ ReceivedReplies(ch) # {}
  /\ \A i \in UserReplies(ch) : ch.posted[i].text = text

\* the record kept for a later replay of the deletions of the form
ReplayRecord(reason) ==
  [form |-> Form, reason |-> reason, photos |-> Cardinality(orphaned_files)]

\* the step on which an awaited approval request is resolved
Resolving == pc = "await" /\ pc' # "await"

Unrecognized == {Chars("maybe"), Chars("yes ok")}

\* the channel holds nothing but messages of bots and unrecognized replies
OnlyNoise(ch) ==
  \A i \in 1..Len(ch.posted) :
    ch.posted[i].bot_id \/ ch.posted[i].text \in Unrecognized

\* C12: while the channel returns only unrecognized replies and messages of
\* bots, the wait never answers approve, skip or end; it answers timeout only
\* once the timeout has elapsed, it does not poll beyond it, and it always
\* ends: the gate resolves to timed out
C12_NoiseTimesOut ==
  /\ [](OnlyNoise(channel) =>
          /\ response \in {"none", "timeout"}
          /\ (response = "timeout" => ~(wait_elapsed < timeout_minutes * 60))
          /\ wait_elapsed < timeout_minutes * 60 + channel.latency + poll_interval
          /\ gate_log.awaited => gate_log.path = "timeout")
  /\ ((pc = "await" /\ OnlyNoise(channel)) ~>
        (pc = "transfer" /\ gate_log.path = "timeout"))

C12_Witness ==
  /\ pc = "transfer"
  /\ gate_log.path = "timeout"
  /\ OnlyNoise(channel)
  /\ \E i, j \in 1..Len(channel.posted) :
       /\ channel.posted[i].bot_id
       /\ channel.posted[i].text = Chars("yes")
       /\ ~channel.posted[j].bot_id
       /\ channel.posted[j].text = Chars("maybe")

\* the step on which cleanup_deleted_photos runs for the form at hand
Reconciled == pc = "cleanup" /\ pc' \in {"transfer", "final"}

\* the orphan set identify_orphaned_photos hands to the gate on that step
FormOrphans == orphaned_files'

\* a delete is issued for every orphan, and a file of each name goes unless
\* the target refuses the delete
OrphansDeleted ==
  /\ gate_log'.delete_calls = FormOrphans
  /\ \A n \in FormOrphans :
       \/ drive_files'[Form][n] = drive_files[Form][n] - 1
       \/ faults' > faults /\ drive_files'[Form][n] = drive_files[Form][n]
  /\ deleted_count' =
       Cardinality({n \in FormOrphans : drive_files'[Form][n] < drive_files[Form][n]})

NothingDeleted ==
  /\ gate_log'.delete_calls = {}
  /\ drive_files' = drive_files
  /\ deleted_count' = 0

\* C13: with the skip flag set, the reconciliation of a non-empty orphan set
\* returns skipped and deletes nothing, whatever the auto-delete flag, the
\* pre-approved set and the channel are
C13_SkipPolicy ==
  [][(Reconciled /\ cfg.skip_deletions /\ FormOrphans # {}) =>
       /\ gate_log'.action = "skipped"
       /\ gate_log'.request = "none"
       /\ NothingDeleted
    ]_vars

C13_Witness ==
  /\ pc = "transfer"
  /\ gate_log.path = "skip_policy"
  /\ gate_log.orphans # {}
  /\ cfg.auto_delete
  /\ cfg.slack_enabled
  /\ Form \in cfg.pre_approved
  /\ \A n \in gate_log.orphans : drive_files[Form][n] > 0

\* C14: with the skip flag unset and the auto-delete flag set or the form
\* pre-approved, the reconciliation of a non-empty orphan set returns approved
\* and deletes the orphans, and no answer to an approval request is awaited
C14_DirectApproval ==
  [][(/\ Reconciled
      /\ ~cfg.skip_deletions
      /\ cfg.auto_delete \/ Form \in cfg.pre_approved
      /\ FormOrphans # {}) =>
       /\ gate_log'.action = "approved"
       /\ ~gate_log'.awaited
       /\ gate_log'.request = "none"
       /\ OrphansDeleted
    ]_vars

C14_Witness ==
  /\ pc = "transfer"
  /\ gate_log.path = "pre_approved"
  /\ cfg.slack_enabled
  /\ gate_log.delete_calls # {}
  /\ \A n \in gate_log.orphans : drive_files[Form][n] = 0

\* C15: with no flag set and the form not pre-approved, when no channel is
\* configured or the request cannot be sent, the reconciliation of a non-empty
\* orphan set returns approved and deletes the orphans, without a wait
C15_FailOpen ==
  [][(/\ Reconciled
      /\ ~cfg.skip_deletions
      /\ ~cfg.auto_delete
      /\ Form \notin cfg.pre_approved
      /\ FormOrphans # {}
      /\ ~cfg.slack_enabled \/ gate_log'.request = "failed") =>
       /\ gate_log'.action = "approved"
       /\ ~gate_log'.awaited
       /\ OrphansDeleted
    ]_vars

C15_Witness ==
  /\ pc = "transfer"
  /\ gate_log.request = "failed"
  /\ gate_log.delete_calls # {}
  /\ \A n \in gate_log.orphans : drive_files[Form][n] = 0

\* C16: every reconciliation that returns skipped (the skip flag, a reply
\* "skip", no reply in time) appends one record {form, reason, orphan count}
\* to the replay list, returns a deleted count of zero and deletes nothing
C16_SkippedIsRecorded ==
  [][(Reconciled /\ gate_log'.action = "skipped") =>
       /\ Len(_skipped_forms') = Len(_skipped_forms) + 1
       /\ SubSeq(_skipped_forms', 1, Len(_skipped_forms)) = _skipped_forms
       /\ LET rec == _skipped_forms'[Len(_skipped_forms')]
          IN /\ rec.form = Form
             /\ rec.photos = Cardinality(FormOrphans)
       /\ NothingDeleted
    ]_vars

\* C17: when the gate resolves to ended for a form, none of its orphans is
\* deleted, and from then on the run calls export_form for no form
C17_EndStopsTheRun ==
  /\ [][(Reconciled /\ gate_log'.action = "ended") =>
          /\ NothingDeleted
          /\ pc' = "final"
          /\ _export_cancelled'
       ]_vars
  /\ [][(gate_log.action = "ended" /\ run' = run) =>
          /\ exportCalls' = exportCalls
          /\ pc' \notin ExportPcs
          /\ drive_files' = drive_files
       ]_vars

C17_Witness ==
  /\ pc = "exited"
  /\ gate_log.action = "ended"
  /\ idx = 1
  /\ Len(exportCalls) = 1
  /\ gate_log.orphans # {}
  /\ \A n \in gate_log.orphans : drive_files[Form][n] > 0

\* C18: when an end decision has stopped the run, the checkpoint with the
\* cursor and the counters of this run and the transferred ids is on disk
\* once the summary has been written
C18_EndWritesCheckpoint ==
  (pc \in {"done", "exited"} /\ gate_log.action = "ended" /\ ~signalled) =>
    /\ state_file.exists
    /\ state_file.form_index = _current_form_index
    /\ state_file.stats = stats
    /\ progress_file.exists
    /\ progress_file.uploaded_photos = _uploaded_photos

\* the step on which a batch of transfers, first or retry round, is submitted
Submitting ==
  \/ pc = "transfer" /\ pc' = "batch"
  \/ retry_count' > retry_count

\* C19: within one call of export_form, no transfer batch is submitted once
\* the orphan reconciliation has started (the transfers and their retry rounds
\* are over before it), and the reconciliation is over when the summary of
\* the form is written
C19_TransfersBeforeReconciliation ==
  /\ [][Submitting => gate_log.action = "none"]_vars
  /\ [][(pc = "listing" /\ pc' = "loop") => gate_log.action # "none"]_vars

\* the step on which _download_and_upload_photos returns to export_form
Returning ==
  /\ pc \in {"batch", "batch_wait"}
  /\ pc' = "listing" \/ retry_count' = retry_count + 1

\* a round is a submission of a batch; this one failed as many as the one before
RoundWithoutProgress == retry_count >= 1 /\ Cardinality(failed) >= Cardinality(failed_photos)

\* C20 as stated, rounds counting the submissions of a batch: a round that
\* fails no fewer than the round before it ends the retrying, so that after
\* two rounds that failed throughout there is no third
C20_NoProgressEnds ==
  [][(Returning /\ RoundWithoutProgress) => pc' = "listing"]_vars

\* C20, amended: a retry round without progress ends the retrying only from
\* the second retry round on; before that, and after a round with progress,
\* the failures are submitted again, up to three retry rounds in all
C20_GiveUpRule ==
  /\ [][Returning =>
          (pc' = "listing" <=>
             \/ failed = {}
             \/ retry_count >= batch_retry_rounds
             \/ RoundWithoutProgress /\ retry_count >= give_up_after)]_vars
  /\ [][(Returning /\ retry_count' = retry_count + 1) => photos' = failed]_vars
  /\ [](retry_count <= batch_retry_rounds)

C20_Witness ==
  /\ pc = "listing"
  /\ Form = "F2"
  /\ failed_photos = {PD}
  /\ retry_count = give_up_after
  /\ fetchCalls[PD] = 0

\* ---------------------------------------------------------------- C21
\* the delays of one _upload_to_drive call slept for the backoff statuses
ExponentialDelays ==
  SelectSeq(xfer.sleeps, LAMBDA sl : sl.kind = "exponential")

\* C21: in one _upload_to_drive call the delays slept before consecutive
\* retries of errors answered with exponential backoff (status 429, 403, 500,
\* 503) never decrease, from the first attempt up to the attempt ceiling.
C21_BackoffMonotone ==
  \A i \in 1..Len(ExponentialDelays) : \A j \in 1..Len(ExponentialDelays) :
    i < j => ExponentialDelays[i].delay <= ExponentialDelays[j].delay

\* every attempt up to the ceiling was answered with a backoff status: the
\* delays were 1 s, 2.5 s and 5 s
C21_Witness ==
  /\ xfer.pc = "done"
  /\ xfer.create_calls = max_retries
  /\ [i \in 1..Len(ExponentialDelays) |-> ExponentialDelays[i].delay] = <<2, 5, 10>>

\* ---------------------------------------------------------------- C22
\* the metadata of the photo marks it deleted, not stored or not processed
Marked ==
  xfer.photo.deleted_at \/ ~xfer.photo.stored \/ ~xfer.photo.processed

\* C22 as stated: for an asset whose metadata marks it deleted, not stored or
\* not processed the transfer is rejected with a failure outcome and no
\* network call at all is made for it.
C22_NoNetworkCall ==
  (xfer.pc # "none" /\ Marked) =>
    /\ xfer.meta_calls = 0 /\ xfer.fetch_calls = 0 /\ xfer.create_calls = 0
    /\ xfer.pc = "done" => xfer.download = "error"

\* C22: for an asset whose metadata marks it deleted, not stored or not
\* processed the transfer ends with a failure outcome, and the file is never
\* fetched and never created in the target. With the photo in the batch
\* metadata of the form no network call is made; without it
\* download_photo_to_memory asks the source for the metadata first, once per
\* attempt, at most max_retries times.
C22_RejectedWithoutTransfer ==
  (xfer.pc # "none" /\ Marked) =>
    /\ xfer.fetch_calls = 0 /\ xfer.create_calls = 0
    /\ ~xfer.fetched /\ ~xfer.created /\ xfer.upload = "none"
    /\ xfer.photo.cached => xfer.meta_calls = 0
    /\ xfer.meta_calls <= max_retries
    /\ xfer.pc = "done" =>
         /\ xfer.download = "error"
         /\ ~xfer.photo.cached => xfer.meta_calls >= 1

\* a photo that is not processed and not in the batch metadata is rejected
\* after the source answered the second metadata request
C22_Witness ==
  /\ xfer.pc = "done" /\ xfer.last = "rejected"
  /\ ~xfer.photo.cached /\ ~xfer.photo.processed
  /\ xfer.meta_calls = 2 /\ xfer.fetch_calls = 0

\* ---------------------------------------------------------------- C23
\* the photos of the form the source marks deleted, not stored or unprocessed
MarkedPhotos == {p \in photos_to_download : Rejected(PhotoData(p))}

\* C23: an asset marked deleted or unprocessed at the source is a terminal
\* skip: no batch retry round resubmits it, the summary of the form counts it
\* in the skipped counter and not in the failed counter, and a form whose only
\* failures are such assets does not enter the failure report. It is stated
\* for the runs in which no collaborator fails and no batch times out, where a
\* failure of a marked asset is its rejection.
C23_TerminalSkip ==
  /\ [][(faults = 0 /\ retry_count' > retry_count) =>
          \A p \in failed_photos' : ~Rejected(PhotoData(p))]_vars
  /\ [][(faults = 0 /\ pc = "listing"
           /\ stats'.forms_processed = stats.forms_processed + 1) =>
          /\ stats'.photos_failed <=
               stats.photos_failed + Cardinality(failed_photos \ MarkedPhotos)
          /\ stats'.photos_skipped >=
               stats.photos_skipped + skipped + Cardinality(MarkedPhotos)
          /\ failed_photos \subseteq MarkedPhotos =>
               \A f \in failed_forms' : f.name # Form]_vars

\* ---------------------------------------------------------------- C24
\* a create call of _upload_to_drive answered with an HttpError whose status
\* is neither a rate limit (429, 403) nor a server failure (500, 503)
PermanentAnswer ==
  /\ xfer.pc = "upload"
  /\ xfer'.create_calls = xfer.create_calls + 1
  /\ xfer'.status \in {400, 404}

\* C24: when a create call of _upload_to_drive fails with a target-store
\* error that is neither rate limiting nor a transient server failure, the
\* call returns failure at once: that one create call is the last, no sleep
\* follows it and no further attempt is made.
C24_PermanentNotRetried ==
  /\ [][PermanentAnswer =>
          /\ xfer'.pc = "done" /\ xfer'.upload = "false" /\ ~xfer'.created
          /\ xfer'.sleeps = xfer.sleeps
          /\ xfer'.attempt = xfer.attempt
          /\ xfer.create_calls = 0 => xfer'.create_calls = 1]_vars
  /\ [][xfer.pc = "done" => xfer' = xfer]_vars

\* the first create call is answered 400: one call, no sleep, failure
C24_Witness ==
  /\ xfer.pc = "done" /\ xfer.fetched
  /\ xfer.status = 400 /\ xfer.create_calls = 1
  /\ xfer.sleeps = <<>> /\ xfer.upload = "false"

\* ---------------------------------------------------------------- C25
\* C25: transient errors are retried up to a ceiling and then counted as
\* failed: one _upload_to_drive call makes at most max_retries create calls,
\* one download_photo_with_metadata call makes at most 3 fetch calls, whatever
\* mix of network/TLS and rate-limit/5xx errors occurs, and each returns
\* success iff one of its calls succeeded.
C25_BoundedRetries ==
  /\ xfer.create_calls <= max_retries
  /\ xfer.photo.cached => (xfer.fetch_calls <= 3 /\ xfer.meta_calls = 0)
  /\ xfer.pc \in {"upload", "done"} =>
       /\ xfer.download # "none"
       /\ xfer.download = "content" <=> xfer.fetched
  /\ xfer.pc = "done" /\ xfer.fetched =>
       /\ xfer.upload # "none"
       /\ xfer.upload = "true" <=> xfer.created
  /\ xfer.created => xfer.fetched

\* the third fetch succeeds after two connection errors; the three create
\* calls fail with a mix of rate-limit and connection errors; the upload fails
C25_Witness ==
  /\ xfer.pc = "done" /\ xfer.photo.cached
  /\ xfer.fetch_calls = 3 /\ xfer.fetched
  /\ xfer.create_calls = max_retries /\ xfer.upload = "false"
  /\ Len(ExponentialDelays) >= 1
  /\ Len(xfer.sleeps) - Len(ExponentialDelays) >= 3

\* ---------------------------------------------------------------- C26
\* a transfer of the batch hangs: its call never returns
SomeHung == \E f \in Futures : pool.future[f] = "hung"

\* C26: if one transfer of a batch hangs and never completes,
\* _download_and_upload_photos still returns: the hung transfer is marked
\* failed and is not awaited indefinitely.
C26_HungBatchReturns ==
  SomeHung ~> (pool.pc = "returned" /\ \A f \in Futures :
                                          pool.future[f] = "hung" => f \in pool.failed)

\* ---------------------------------------------------------------- C27
\* C27: in a concurrent batch, pending transfers are marked failed as stalled
\* only when no completion has been observed for the whole no-progress wait;
\* a batch whose completions keep arriving within that wait is never cut off,
\* however long it takes in total.
C27_StalledOnlyWithoutProgress ==
  pool.stalled # {} => pool.stalled_after >= as_completed_timeout

\* ---------------------------------------------------------------- C28
\* the calls of export_form made for a form, by position in loop.calls
CallsOf(form) == {k \in 1..Len(loop.calls) : loop.calls[k].form = form}

\* the form has failed: its last call raised and no retry follows it
FailedForm(form) ==
  /\ CallsOf(form) # {}
  /\ LET k == CHOOSE j \in CallsOf(form) : \A i \in CallsOf(form) : i <= j
     IN /\ loop.calls[k].outcome \in {"oserror", "exception"}
        /\ k < Len(loop.calls) \/ loop.pc = "end" \/ Forms[loop.idx] # form

\* C28: a failing form never aborts the run: export_form is called at most
\* three times for one form (one attempt and at most two retries, a retry only
\* after a network/TLS-class failure), after which the form is recorded as
\* failed and export_all goes on to the next form.
C28_FailingFormNeverAborts ==
  /\ \A i \in 1..NForms : Cardinality(CallsOf(Forms[i])) <= 3
  /\ \A k \in 1..(Len(loop.calls) - 1) :
       IF loop.calls[k + 1].form = loop.calls[k].form
         THEN loop.calls[k].outcome = "oserror"
         ELSE \E i \in 1..(NForms - 1) :
                loop.calls[k].form = Forms[i] /\ loop.calls[k + 1].form = Forms[i + 1]
  /\ \A i \in 1..NForms :
       FailedForm(Forms[i]) <=>
         \E r \in 1..Len(loop.results) :
           loop.results[r] = [form |-> Forms[i], kind |-> "error"]
  /\ loop.pc = "end" =>
       \/ \A i \in 1..NForms : CallsOf(Forms[i]) # {}
       \/ loop.calls[Len(loop.calls)].outcome = "export_ended"

\* the first form raised an OSError three times and is recorded as failed;
\* the second form has been called
C28_Witness ==
  /\ Len(loop.calls) = 4
  /\ \A k \in 1..3 : loop.calls[k] = [form |-> Forms[1], attempt |-> k - 1,
                                      outcome |-> "oserror"]
  /\ loop.calls[4].form = Forms[2]
  /\ loop.results[1] = [form |-> Forms[1], kind |-> "error"]

\* ---------------------------------------------------------------- C29
\* the forms whose last export left failed photos
FormsWithFailures == {i \in 1..NForms : report.last_failed[i] > 0}

\* C29: at the end of every run, a run resumed from a checkpoint included,
\* the failure summary reflects the current state: if the failed counter of
\* the run is above zero the summary exists and names every form that has
\* failed photos, in non-increasing order of failed count; if no form has
\* failed photos the summary is absent.
C29_SummaryReflectsState ==
  report.pc = "end" =>
    /\ report.photos_failed > 0 =>
         /\ report.summary.exists
         /\ \A i \in FormsWithFailures :
              \E k \in 1..Len(report.summary.forms) :
                report.summary.forms[k].name = Forms[i]
         /\ \A k \in 1..(Len(report.summary.forms) - 1) :
              report.summary.forms[k].photos_failed >=
                report.summary.forms[k + 1].photos_failed
    /\ FormsWithFailures = {} => ~report.summary.exists

\* ---------------------------------------------------------------- C30
\* the files of the form's folder that the reconciliation step removes
RemovedFiles == {n \in AllNames : drive_files'[Form][n] < drive_files[Form][n]}

\* C30: orphan reconciliation never deletes a target file whose asset id
\* denotes an asset that still exists in the source, also when
\* get_photos_metadata_batch fails on a page and returns a partial or empty
\* metadata map.
C30_LiveAssetsKept ==
  [][Reconciled =>
       \A n \in RemovedFiles : RsplitHead(n) \notin all_photos(Form)]_vars

\* ---------------------------------------------------------------- C31
\* C31: when _download_and_upload_photos returns, every submitted photo is
\* in all_results and is in the failed list iff its transfer did not succeed,
\* so that the uploaded count of the form (backlog minus failures) is the
\* number of photos whose create call succeeded, under every interleaving of
\* worker completions with the timeout of the batch-wide wait.
C31_ResultsAccountForEveryPhoto ==
  [][Returning =>
       /\ all_results = photos
       /\ \A p \in photos : p \in failed <=> wst[p] # "ok"
       /\ Cardinality(photos) - Cardinality(failed) =
            Cardinality({p \in photos : wst[p] = "ok"})]_vars

\* ---------------------------------------------------------------- C32
\* C32: in a run resumed from cursor s, every checkpoint write persists a
\* cursor that is at least s, also when a termination signal arrives before
\* the loop has reached form s.
C32_CursorNeverBelowResume ==
  [][(state_file' # state_file /\ state_file'.exists) =>
       state_file'.form_index >= start_form_index]_vars

\* ---------------------------------------------------------------- C33
\* C33: each form contributes to the run-wide counters at most once across a
\* run, its retries and any resumed run: forms_processed never exceeds the
\* number of distinct forms visited, which is at most the number of forms.
C33_FormsCountedOnce ==
  stats.forms_processed <= NForms

\* ---------------------------------------------------------------- C34
\* C34: every mutation of a folder through the exporter (an upload into it, a
\* delete from it, clearing it) removes that folder's entry from the listing
\* cache, so a cached listing served afterwards never predates the mutation.
C34_MutationInvalidatesCache ==
  [][\A f \in {Forms[i] : i \in 1..NForms} :
       drive_files'[f] # drive_files[f] => ~ _contents_cache'[f].hit]_vars

\* ---------------------------------------------------------------- C35
\* C35: _list_drive_folder_contents called with use_cache=False returns the
\* folder's actual current children, also for a folder created earlier in the
\* same run into which photos have since been uploaded (the call of line 1455).
C35_UncachedListingIsActual ==
  pc = "listing" =>
    _list_drive_folder_contents(_contents_cache, _new_folders, drive_files,
                                Form, FALSE).names = Listing(drive_files[Form])

\* ---------------------------------------------------------------- C36
\* C36: a folder created by _get_or_create_folder is tracked in _new_folders,
\* and its first listing is served from memory as the empty set: the names
\* returned are {} whatever the Drive holds (no list call is made), and the
\* empty listing is cached.
AnyDriveContents ==
  {drive_files, [drive_files EXCEPT ![Form] = [n \in AllNames |-> 1]]}

C36_NewFolderKnownEmpty ==
  [][/\ (drive_folders' \ drive_folders) \subseteq _new_folders'
     /\ (pc = "filter" /\ pc' = "metadata" /\ Form \in _new_folders
           /\ ~ _contents_cache[Form].hit) =>
          /\ existing_photos' = {}
          /\ _contents_cache'[Form] = [hit |-> TRUE, names |-> {}]
          /\ \A files \in AnyDriveContents :
               _list_drive_folder_contents(_contents_cache, _new_folders,
                                           files, Form, TRUE).names = {}]_vars

C36_Witness ==
  /\ pc = "metadata"
  /\ Form \in _new_folders
  /\ Form \in drive_folders
  /\ existing_photos = {}
  /\ _contents_cache[Form] = [hit |-> TRUE, names |-> {}]
  /\ attempt = 0

\* ---------------------------------------------------------------- C37
\* C37: under every interleaving of concurrent workers calling
\* _record_photo_uploaded, each time the set's size reaches a multiple of
\* save_every the progress file is written with the whole set: once no call
\* is between its add and its size test, the file holds the set that reached
\* the multiple.
C37_SavedAtEveryMultiple ==
  (/\ recd.pc = "batch"
   /\ recd.reached # {}
   /\ \A w \in Workers : recd.at[w] # "added") =>
    /\ recd.progress_file.exists
    /\ recd.reached \subseteq recd.progress_file.uploaded_photos

\* ---------------------------------------------------------------- C38
\* C38: while a batch is running, a step of a pool thread changes no shared
\* state of the exporter other than the set of uploaded photo ids: the run
\* counters, the folder-id cache, the listing cache and the form cursor (and
\* the rest of the object's fields) are changed by the main thread only.
WorkerStep ==
  \E p \in AllPhotoIds :
    \/ wst[p] = "queued" /\ wst'[p] \in {"fetch", "fetch_mem", "failed"}
    \/ fetchCalls'[p] = fetchCalls[p] + 1
    \/ createCalls'[p] = createCalls[p] + 1

C38_WorkersLeaveSharedState ==
  [][WorkerStep =>
       UNCHANGED <<stats, _folder_cache, _contents_cache, _new_folders,
                   _current_form_index, start_form_index, failed_forms,
                   _forms_list, _export_cancelled, _skipped_forms,
                   state_file>>]_vars

C38_Witness ==
  /\ pc = "batch"
  /\ \E p \in photos \ yielded :
       wst[p] = "ok" /\ p \in _uploaded_photos /\ createOk[p] = 1
  /\ \E q \in photos : wst[q] \in {"fetch", "upload"}

\* ---------------------------------------------------------------- C39
\* C39: in a concurrent batch every pool thread issues its Drive calls
\* through a service that belongs to that thread alone: no two threads hold
\* or use the same service, and no pool thread uses a service of the main
\* thread, also after a token refresh or a reset following a TLS error.
C39_ServicePerThread ==
  /\ \A t1, t2 \in SvcThreads :
       (t1 # t2 /\ svc.service[t1] # 0) => svc.service[t1] # svc.service[t2]
  /\ \A u1, u2 \in svc.used : u1[2] = u2[2] => u1[1] = u2[1]
  /\ \A u \in svc.used : u[2] # 0 /\ u[2] \notin svc.main
  /\ \A t \in SvcThreads : svc.service[t] \notin svc.main

C39_Witness ==
  /\ svc.pc = "batch"
  /\ svc.refreshed = 1
  /\ \A t \in SvcThreads : svc.at[t] = "have" /\ svc.attempt[t] > 0
  /\ \E u, v \in svc.used : u[1] = 1 /\ v[1] = 1 /\ u[2] # v[2]
  /\ \E u \in svc.used : u[1] = 2

\* ---------------------------------------------------------------- C40
\* C40: at every moment of a photo batch the number of transfers in flight
\* (started and not yet finished) is at most the pool width max_workers.
C40_InFlightWithinWidth ==
  Cardinality(InFlight(wide)) <= max_workers

C40_Witness ==
  /\ wide.pc = "batch"
  /\ Cardinality(InFlight(wide)) = max_workers
  /\ \E f \in WidePhotos : wide.fut[f] = "queued"
  /\ \E f \in WidePhotos : wide.fut[f] = "done"

====
